---- MODULE Spec2Model ----
(***************************************************************************)
(* The per-table sync engine of the consolidation service: one worker      *)
(* running sync_table for one (branch, table) against a source table and   *)
(* the consolidated target database (the consolidated table and the        *)
(* sync.SyncMeta row of the pair).                                         *)
(*                                                                         *)
(* A source row is [k1, k2]: k1 is the first primary-key column, k2 the    *)
(* second column, which is the second primary-key column when the source   *)
(* key has two columns (pkCols = 2) and an ordinary data column when it    *)
(* has one (pkCols = 1).  A named watermark column is modelled by k2.      *)
(* The consolidated table is a bag of [b, k1, k2] rows, so that what the   *)
(* primary-key constraint of the table forbids can be written down.        *)
(*                                                                         *)
(* The target connection runs with autocommit off: tgt and meta are the    *)
(* committed (durable) state, txTgt and txMeta what the worker's open      *)
(* transaction sees.  Statements on the target that record a status are    *)
(* taken to succeed (the target stays reachable); every step of the batch  *)
(* loop may raise, and the process may be killed at any step.  Injected    *)
(* faults, kills, shutdown signals and source changes are environment      *)
(* events, at most MaxEvents of them in a behaviour.                       *)
(*                                                                         *)
(* Spec runs the worker on a source with a primary key and no consolidated *)
(* table yet; SpecSchema runs it over every source and target schema       *)
(* (align_target_schema_to_source).  SpecCycle is the orchestrator: the    *)
(* outer loop of main.py, main_sync_cycle and sync_branch with their two   *)
(* thread pools and the shutdown flag, each table task being sync_table    *)
(* reduced to its checks of the flag and its outcome; SpecCycleFair adds   *)
(* that threads keep taking steps.                                         *)
(***************************************************************************)
EXTENDS Integers, Sequences, FiniteSets, TLC

\* ---------------------------------------------------------------- bounds
MaxKey == 2          \* values of the first key column: 1..MaxKey
BatchSize == 2       \* TOP <batch_size> of the extraction query, scaled down
MaxRuns == 2         \* sync_table invocations per behaviour
MaxEvents == 1       \* faults, kills, shutdowns and source changes per behaviour
MaxTasks == 4        \* table tasks of a cycle: sources times tables
MaxWait == 1         \* iterations of the wait loops of main.py, scaled down
MaxLines == 2        \* lines of connection_strings.txt
MaxLen == 3          \* characters of a BOTMESS1 value
MaxCalls == 2        \* calls of the SyncMeta functions per behaviour

\* A source table holds at most one row more than a batch.
MaxRows == BatchSize + 1
\* Rows and batches of a run are counted up to one more than there are
\* rows.
Counted == MaxRows + 1

\* ---------------------------------------------------------------- values
Keys == 1..MaxKey
\* The second column takes two values.
Subs == {1, 2}
SrcRows == [k1 : Keys, k2 : Subs]

\* The branch identifier _get_branch_name resolved for this source.
BranchIdentifier == "a"
\* The identifier of another source merged into the same table.
OtherBranch == "b"
TgtRows == [b : {BranchIdentifier, OtherBranch}, k1 : Keys, k2 : Subs]

\* The sync methods the shipped SYNC_METHODS gives the tables of
\* TABLES_TO_SYNC: the default, a named watermark column, and full.
Methods == {"autono", "named", "full"}
\* Every method build_query knows: timestamp stands for the method on a
\* table whose watermark is its date column (saledetail: TrnDate), hybrid
\* for the method on the same table with the key as watermark.  The
\* date column is k2, on the scale of the clock.
AllMethods == Methods \cup {"timestamp", "hybrid"}

Min2(a, b) == IF a < b THEN a ELSE b

RECURSIVE SumOver(_, _)
SumOver(S, f) ==
    IF S = {} THEN 0
    ELSE LET x == CHOOSE y \in S : TRUE IN f[x] + SumOver(S \ {x}, f)

RECURSIVE SetMax(_)
SetMax(S) ==
    LET x == CHOOSE y \in S : TRUE
    IN IF S = {x} THEN x
       ELSE LET m == SetMax(S \ {x}) IN IF x > m THEN x ELSE m

\* str(n): the decimal digits of a non-negative integer.
RECURSIVE Str(_)
Str(n) == IF n < 10 THEN <<n>> ELSE Append(Str(n \div 10), n % 10)

\* The integer SQL Server reads from the quoted literal '<digits>' when it
\* compares it with an integer column.
RECURSIVE SqlInt(_)
SqlInt(s) ==
    IF Len(s) = 0 THEN 0
    ELSE 10 * SqlInt(SubSeq(s, 1, Len(s) - 1)) + s[Len(s)]

EmptyBag == [r \in TgtRows |-> 0]
Present(t) == {r \in TgtRows : t[r] > 0}

\* SyncMeta row of the pair; SyncStatus "none" stands for "no row".
\* LastCompletionTime 0 is NULL.
NoRow == [LastValue |-> <<>>, LastSynced |-> 0, SyncStatus |-> "none",
          LastCompletionTime |-> 0]

NoTemp == [exists |-> FALSE, rows |-> {}]

VARIABLES
    method,      \* sync method configured for the table
    pkCols,      \* number of primary-key columns of the source table
    src,         \* the source table
    tgtTable,    \* the consolidated table exists in the target
    tgtPk,       \* columns of its primary key (none: no primary key)
    tgtBranchCol, \* it has the BranchIdentifier column
    tgt,         \* committed rows of the consolidated table
    meta,        \* committed SyncMeta row
    txTgt,       \* the consolidated table as the open transaction sees it
    txMeta,      \* the SyncMeta row as the open transaction sees it
    temp,        \* the staging table ##<table>_sync_<thread>
    isRunning,   \* running_state['is_running']
    pc,          \* position of the worker in sync_table
    queryLV,     \* query_last_val
    rows,        \* rows of the batch being processed
    nextLV,      \* next_last_val_for_meta
    total,       \* total_rows_synced_this_run
    loopErr,     \* data_sync_loop_error is set
    now,         \* clock (GETDATE())
    runs,        \* invocations started so far
    events,      \* faults, kills, shutdowns and source changes so far
    h,           \* history of the run, read only by the properties
    mainPc,      \* position of the main thread in the outer loop of main.py
    wleft,       \* iterations left of the wait loop the main thread is in
    seen,        \* branch futures as_completed has yielded in this cycle
    bt,          \* branch tasks (sync_branch) of the cycle, per source
    tt,          \* table tasks (sync_table) of the cycle, per source and table
    call         \* the configuration read and the last result computed from it

vars == <<method, pkCols, src, tgtTable, tgtPk, tgtBranchCol, tgt, meta, txTgt, txMeta, temp,
          isRunning, pc, queryLV, rows, nextLV, total, loopErr, now, runs,
          events, h, mainPc, wleft, seen, bt, tt, call>>

\* The orchestrator: the main thread and the two worker pools.
orch == <<mainPc, wleft, seen, bt, tt>>

schema == <<tgtTable, tgtPk, tgtBranchCol>>

\* ------------------------------------------------------------ the source
PkOf(r, n) == IF n = 1 THEN <<r.k1>> ELSE <<r.k1, r.k2>>
PkUnique(S, n) == \A x, y \in S : PkOf(x, n) = PkOf(y, n) => x = y
Sources(n) == {S \in SUBSET SrcRows : Cardinality(S) <= MaxRows /\ PkUnique(S, n)}

\* ------------------------------------------------------- schema_manager
BRANCH_ID_COL == "BranchIdentifier"
\* Column names of the consolidated table.
Cols == {BRANCH_ID_COL, "k1", "k2"}

\* primary_key_columns of the source table.
SourcePk == IF pkCols = 0 THEN {} ELSE IF pkCols = 1 THEN {"k1"} ELSE {"k1", "k2"}

\* expected_target_pk_cols: BranchIdentifier plus the source key columns.
ExpectedPk == {BRANCH_ID_COL} \cup SourcePk

\* The key _build_create_table_sql gives a new table: the composite key
\* when the source has a primary key, no constraint otherwise.
CreatedPk == IF SourcePk # {} THEN ExpectedPk ELSE {}

\* if source_pk_cols and expected_target_pk_cols != target_pk_cols
PkMismatch == SourcePk # {} /\ ExpectedPk # tgtPk

\* ---------------------------------------- _determine_watermark_and_pk_columns
\* The watermark column: the named column when the method names one, the
\* first primary-key column otherwise.
Wm(r) == IF method \in {"named", "timestamp"} THEN r.k2 ELSE r.k1

\* ------------------------------------------------------------ build_query
\* current_time_cutoff_str, SYNC_LOOKBACK_DAYS being 0.
Cutoff == now
\* Rows the WHERE clause keeps: all for full; [wm] > '<last>' unless the
\* method is timestamp on a date watermark; [date] >= '<cutoff>' for
\* timestamp and hybrid.
Candidates(S, lv) ==
    IF method = "full" THEN S
    ELSE IF method = "timestamp" THEN {r \in S : r.k2 >= Cutoff}
    ELSE IF method = "hybrid" THEN {r \in S : Wm(r) > SqlInt(lv) /\ r.k2 >= Cutoff}
    ELSE {r \in S : Wm(r) > SqlInt(lv)}

\* SELECT TOP <batch_size> ... ORDER BY [wm]: every answer the server may
\* give; rows tied at the cut are the server's choice.
TopN(C) ==
    {B \in SUBSET C :
        /\ Cardinality(B) = Min2(BatchSize, Cardinality(C))
        /\ \A x \in B, y \in C \ B : Wm(x) <= Wm(y)}

\* ------------------------------------------------------- SyncMeta store
GetOrCreate_NoInsert(m) == m
\* get_sync_meta_entry(create_if_not_exists=True): a missing row is inserted
\* with LastValue '0' and status 'Pending'.
GetOrCreate(m) ==
    IF m.SyncStatus = "none"
    THEN [LastValue |-> Str(0), LastSynced |-> now, SyncStatus |-> "Pending",
          LastCompletionTime |-> 0]
    ELSE m

UpdateLastValue_Upsert(m, v) == [m EXCEPT !.LastValue = v, !.LastSynced = now]
UpdateStatus_StampsAlways(m, status) ==
    IF m.SyncStatus = "none" THEN m
    ELSE [m EXCEPT !.SyncStatus = status, !.LastSynced = now,
                   !.LastCompletionTime = now]
\* update_last_synced_value: UPDATE ... SET LastValue, LastSynced = GETDATE();
\* no row is affected when there is none.
UpdateLastValue(m, v) ==
    IF m.SyncStatus = "none" THEN m
    ELSE [m EXCEPT !.LastValue = v, !.LastSynced = now]

\* update_sync_meta_status: UPDATE ... SET SyncStatus, LastSynced = GETDATE(),
\* and LastCompletionTime = GETDATE() for status Complete.
UpdateStatus(m, status) ==
    IF m.SyncStatus = "none" THEN m
    ELSE [m EXCEPT !.SyncStatus = status, !.LastSynced = now,
                   !.LastCompletionTime = IF status = "Complete" THEN now ELSE @]

\* ---------------------------------------------------------------- MERGE
MergeOn_KeyOnly(t, s) == t.k1 = s.k1
\* ON (target.BranchIdentifier = source.BranchIdentifier AND
\*     target.[pk_col_for_merge] = source.[pk_col_for_merge]),
\* pk_col_for_merge being the first primary-key column.
MergeOn(t, s) == t.b = BranchIdentifier /\ t.k1 = s.k1

Matching(t, batch) == {s \in batch : MergeOn(t, s)}

\* A target row that joins more than one source row: the statement fails
\* (it would update the same row twice).
MultiMatch(T, batch) == \E t \in Present(T) : Cardinality(Matching(t, batch)) > 1

\* WHEN MATCHED THEN UPDATE SET every column but pk_col_for_merge.
Updated(t, batch) ==
    IF Matching(t, batch) = {} THEN t
    ELSE [t EXCEPT !.k2 = (CHOOSE s \in Matching(t, batch) : TRUE).k2]

\* WHEN NOT MATCHED BY TARGET THEN INSERT.
Inserted(T, batch) ==
    {[b |-> BranchIdentifier, k1 |-> s.k1, k2 |-> s.k2] :
        s \in {x \in batch : \A t \in Present(T) : ~MergeOn(t, x)}}

MergeRows(T, batch) ==
    [r \in TgtRows |->
        SumOver({t \in Present(T) : Updated(t, batch) = r}, T)
        + (IF r \in Inserted(T, batch) THEN 1 ELSE 0)]

\* The key of the consolidated table: PK_<table>_Composite over
\* BranchIdentifier and the source primary-key columns.
TargetKey(r) == IF pkCols = 1 THEN <<r.b, r.k1>> ELSE <<r.b, r.k1, r.k2>>

KeyUnique(T) ==
    \A r \in Present(T) : SumOver({x \in TgtRows : TargetKey(x) = TargetKey(r)}, T) = 1

PkEnforced_NoConstraint == FALSE
\* The table is created with the composite primary key, and an existing
\* table is synced only when its key is that one.
PkEnforced == TRUE

\* The MERGE statement raises.
MergeRaises(T, batch) ==
    \/ MultiMatch(T, batch)
    \/ PkEnforced /\ ~KeyUnique(MergeRows(T, batch))

\* ------------------------------------------------------- the connection
TargetAutocommit_On == TRUE
\* connect_to_db(..., autocommit=False) for the target session.
TargetAutocommit == FALSE

\* What is durable after a statement of the open transaction.
Durable(committed, inTx) == IF TargetAutocommit THEN inTx ELSE committed

NoBatch == [st |-> "none", rows |-> {}, preTgt |-> EmptyBag, preLV |-> <<>>]

\* History of the invocation in progress (start*, commits, c*, exit, kind,
\* aligned, raised, stopped, batch, replay, retry*) and of the last failed batch
\* (fail*, forgotten when the source changes).
NoHist ==
    [startLV |-> <<>>, startTgt |-> EmptyBag, startLS |-> 0,
     startStatus |-> "none", srcSame |-> TRUE, injected |-> FALSE,
     commits |-> 0, late |-> 0, cTgt |-> EmptyBag, cLV |-> <<>>,
     exit |-> "none", startTable |-> FALSE, startPk |-> {}, aligned |-> FALSE,
     kind |-> "none", raised |-> FALSE, stopped |-> FALSE, batch |-> NoBatch,
     replay |-> FALSE, retry |-> FALSE, retryLV |-> <<>>, retryRows |-> {},
     failed |-> FALSE, failLV |-> <<>>, failRows |-> {}]

\* ------------------------------------------------------- the orchestrator
\* ThreadPoolExecutor(max_workers=...) of main_sync_cycle, scaled down, and
\* of sync_branch.
MAX_DB_SYNC_WORKERS == 2
MAX_CONCURRENT_TABLES_PER_BRANCH == 2

\* The source connections of connection_strings.txt and the entries of
\* TABLES_TO_SYNC, as the tasks of the cycle are indexed by them.
SourceConfigs == DOMAIN bt
TABLES_TO_SYNC == DOMAIN tt[1]
\* The configurations: up to one source more than the outer pool has
\* threads and one table more than the inner pool has (so that tasks have
\* to wait for a thread), at most MaxTasks table tasks in a cycle.
Configs ==
    {c \in (1..(MAX_DB_SYNC_WORKERS + 1))
              \X (1..(MAX_CONCURRENT_TABLES_PER_BRANCH + 1)) :
        c[1] * c[2] <= MaxTasks}
\* What _get_branch_name can return for a source: the Logo value, or the
\* database name when the Logo table cannot be read.  The databases are
\* named db1, db2, ...; the Logo tables of sources 1 and 2 hold the same
\* value, the other sources have a value of their own.
LogoValue(s) == IF s <= 2 THEN "a" ELSE <<"logo", s>>
BranchNames(s) == {LogoValue(s), <<"db", s>>}

NoBranch == [st |-> "none", name |-> "", out |-> "none", complete |-> 0]
NoTable == [st |-> "none"]
\* Nothing of the configuration is looked at.
NoCall == [fn |-> "none"]
\* connection_strings.txt is not read yet.
NoFile == [st |-> "none", lines |-> <<>>]

\* The main thread is at the top of its loop, no cycle has run; ns sources
\* and nt tables are configured.
OrchIdle(ns, nt) ==
    /\ mainPc = "top"
    /\ wleft = 0
    /\ seen = {}
    /\ bt = [s \in 1..ns |-> NoBranch]
    /\ tt = [s \in 1..ns |-> [t \in 1..nt |-> NoTable]]
    /\ call = NoCall

\* Nothing is synced yet, there is no SyncMeta row.
Unsynced ==
    /\ tgt = EmptyBag
    /\ meta = NoRow
    /\ txTgt = EmptyBag
    /\ txMeta = NoRow
    /\ temp = NoTemp
    /\ isRunning = TRUE
    /\ pc = "idle"
    /\ queryLV = <<>>
    /\ rows = {}
    /\ nextLV = <<>>
    /\ total = 0
    /\ loopErr = FALSE
    /\ now = 0
    /\ runs = 0
    /\ events = 0
    /\ h = NoHist

\* Before the first invocation of the one table worker.
Fresh == Unsynced /\ OrchIdle(1, 1) /\ method \in Methods

\* A source table with a primary key, no consolidated table yet.
Init ==
    /\ Fresh
    /\ pkCols \in {1, 2}
    /\ src \in Sources(pkCols)
    /\ tgtTable = FALSE
    /\ tgtBranchCol = FALSE
    /\ tgtPk = {}

\* Any source table (with or without a primary key) of at most one row,
\* and any consolidated table: missing, or already there with or without
\* the BranchIdentifier column and with any primary key.
InitSchema ==
    /\ Fresh
    /\ pkCols \in {0, 1, 2}
    /\ src \in {S \in Sources(pkCols) : Cardinality(S) <= 1}
    /\ tgtTable \in BOOLEAN
    /\ tgtBranchCol \in BOOLEAN
    /\ tgtPk \in SUBSET Cols
    /\ ~tgtTable => ~tgtBranchCol /\ tgtPk = {}
    /\ BRANCH_ID_COL \in tgtPk => tgtBranchCol

\* ------------------------------------------------------------ sync_table
\* The invocation starts with the shutdown flag still set to running.
Start ==
    /\ events' = events
    /\ UNCHANGED <<orch, call>>
    /\ pc = "idle" /\ runs < MaxRuns /\ isRunning
    /\ runs' = runs + 1
    /\ now' = now + 1
    /\ pc' = "begin"
    /\ h' = [h EXCEPT
              !.startLV = IF meta.SyncStatus = "none" THEN Str(0) ELSE meta.LastValue,
              !.startTgt = tgt, !.startLS = meta.LastSynced,
              !.startStatus = meta.SyncStatus, !.srcSame = TRUE,
              !.startTable = tgtTable, !.startPk = tgtPk, !.aligned = FALSE,
              !.injected = FALSE, !.commits = 0, !.late = 0, !.cTgt = tgt,
              !.cLV = IF meta.SyncStatus = "none" THEN Str(0) ELSE meta.LastValue,
              !.exit = "none", !.kind = "running", !.raised = FALSE,
              !.stopped = FALSE, !.batch = NoBatch,
              !.replay = (h.srcSame /\ meta.SyncStatus = "Complete"),
              !.retry = h.failed, !.retryLV = h.failLV,
              !.retryRows = h.failRows,
              !.failed = FALSE, !.failLV = <<>>, !.failRows = {}]
    /\ UNCHANGED <<method, pkCols, src, schema, tgt, meta, txTgt, txMeta,
                   temp, isRunning, queryLV, rows, nextLV, total, loopErr>>

StartCancelled_Proceeds ==
    /\ events' = events
    /\ UNCHANGED <<orch, call>>
    /\ pc = "idle" /\ runs < MaxRuns /\ ~isRunning
    /\ runs' = runs + 1
    /\ now' = now + 1
    /\ pc' = "begin"
    /\ h' = [NoHist EXCEPT !.kind = "running", !.startTgt = tgt, !.cTgt = tgt]
    /\ UNCHANGED <<method, pkCols, src, schema, tgt, meta, txTgt, txMeta,
                   temp, isRunning, queryLV, rows, nextLV, total, loopErr>>
\* if not running_state['is_running']: return, before anything is opened.
StartCancelled ==
    /\ events' = events
    /\ UNCHANGED <<orch, call>>
    /\ pc = "idle" /\ runs < MaxRuns /\ ~isRunning
    /\ runs' = runs + 1
    /\ now' = now + 1
    /\ h' = NoHist
    /\ UNCHANGED <<method, pkCols, src, schema, tgt, meta, txTgt, txMeta,
                   temp, isRunning, pc, queryLV, rows, nextLV, total, loopErr>>

\* return: control passes to the finally clause.
Return ==
    /\ pc' = "close"
    /\ UNCHANGED <<queryLV, rows, nextLV, total, loopErr, temp>>

\* The locals of the function are gone.
Gone ==
    /\ pc' = "idle"
    /\ queryLV' = <<>>
    /\ rows' = {}
    /\ nextLV' = <<>>
    /\ total' = 0
    /\ loopErr' = FALSE
    /\ temp' = NoTemp

\* ensure_database_exists, both connections, ensure_sync_schema_and_meta,
\* get_sync_meta_entry(create_if_not_exists=True), status InProgress, commit.
BeginCycle ==
    /\ events' = events
    /\ UNCHANGED <<orch, call>>
    /\ pc = "begin"
    /\ meta' = UpdateStatus(GetOrCreate(txMeta), "InProgress")
    /\ txMeta' = meta'
    /\ tgt' = txTgt
    /\ pc' = "check1"
    /\ UNCHANGED <<method, pkCols, src, schema, txTgt, temp, isRunning,
                   queryLV, rows, nextLV, total, loopErr, now, runs, h>>

\* A connection cannot be opened: the critical handler has no target
\* connection to record anything with.
BeginFails ==
    /\ events < MaxEvents
    /\ events' = events + 1
    /\ UNCHANGED <<orch, call>>
    /\ pc = "begin"
    /\ Return
    /\ h' = [h EXCEPT !.kind = "connfail", !.injected = TRUE]
    /\ UNCHANGED <<method, pkCols, src, schema, tgt, meta, txTgt, txMeta,
                   isRunning, now, runs>>

\* if not running_state['is_running']: return, after InProgress is committed.
CheckRunning ==
    /\ events' = events
    /\ UNCHANGED <<orch, call>>
    /\ pc = "check1"
    /\ IF isRunning
       THEN /\ pc' = "align" /\ h' = h
            /\ UNCHANGED <<queryLV, rows, nextLV, total, loopErr, temp>>
       ELSE /\ Return
            /\ h' = [h EXCEPT !.kind = "cancelled"]
    /\ UNCHANGED <<method, pkCols, src, schema, tgt, meta, txTgt, txMeta,
                   isRunning, now, runs>>

\* align_target_schema_to_source returns True: a missing table is created
\* (and committed); an existing one gets the BranchIdentifier column when
\* it lacks it and passes the primary-key check.
Align ==
    /\ events' = events
    /\ UNCHANGED <<orch, call>>
    /\ pc = "align"
    /\ tgtTable => ~PkMismatch
    /\ tgtTable' = TRUE
    /\ tgtBranchCol' = TRUE
    /\ tgtPk' = IF tgtTable THEN tgtPk ELSE CreatedPk
    /\ pc' = "prep"
    /\ h' = [h EXCEPT !.aligned = TRUE]
    /\ UNCHANGED <<method, pkCols, src, tgt, meta, txTgt, txMeta, temp,
                   isRunning, queryLV, rows, nextLV, total, loopErr, now,
                   runs>>

\* The existing table fails the primary-key check: align returns False
\* (after adding the BranchIdentifier column when it was missing, which the
\* commit of the SchemaError status then commits), SchemaError, return.
AlignMismatch ==
    /\ events' = events
    /\ UNCHANGED <<orch, call>>
    /\ pc = "align"
    /\ tgtTable /\ PkMismatch
    /\ tgtBranchCol' = TRUE
    /\ meta' = UpdateStatus(txMeta, "SchemaError")
    /\ txMeta' = meta'
    /\ tgt' = txTgt
    /\ Return
    /\ h' = [h EXCEPT !.kind = "schemaerr"]
    /\ UNCHANGED <<method, pkCols, src, tgtTable, tgtPk, txTgt, isRunning,
                   now, runs>>

\* align_target_schema_to_source returns False: SchemaError, commit, return.
AlignFails ==
    /\ events < MaxEvents
    /\ events' = events + 1
    /\ UNCHANGED <<orch, call>>
    /\ pc = "align"
    /\ meta' = UpdateStatus(txMeta, "SchemaError")
    /\ txMeta' = meta'
    /\ tgt' = txTgt
    /\ Return
    /\ h' = [h EXCEPT !.kind = "schemaerr", !.injected = TRUE]
    /\ UNCHANGED <<method, pkCols, src, schema, txTgt, isRunning, now, runs>>

\* except Exception as e (the outer handler): status Failed, commit.
Critical(m) == UpdateStatus(m, "Failed")

\* The source declares no primary key: _determine_watermark_and_pk_columns
\* returns (None, None), ValueError is raised and the outer handler runs.
PrepareFails ==
    /\ events' = events
    /\ UNCHANGED <<orch, call>>
    /\ pc = "prep"
    /\ SourcePk = {}
    /\ meta' = Critical(txMeta)
    /\ txMeta' = meta'
    /\ tgt' = txTgt
    /\ Return
    /\ h' = [h EXCEPT !.kind = "critical"]
    /\ UNCHANGED <<method, pkCols, src, schema, txTgt, isRunning, now, runs>>

\* The stored LastValue is read; method full starts from '0'.
Prepare ==
    /\ events' = events
    /\ UNCHANGED <<orch, call>>
    /\ pc = "prep"
    /\ SourcePk # {}
    /\ queryLV' = IF method = "full" THEN Str(0) ELSE txMeta.LastValue
    /\ total' = 0
    /\ loopErr' = FALSE
    /\ pc' = "loop"
    /\ UNCHANGED <<method, pkCols, src, schema, tgt, meta, txTgt, txMeta,
                   temp, isRunning, rows, nextLV, now, runs, h>>

LoopCheck_NoCheck ==
    /\ events' = events
    /\ UNCHANGED <<orch, call>>
    /\ pc = "loop"
    /\ pc' = "fetch" /\ h' = h
    /\ UNCHANGED <<method, pkCols, src, schema, tgt, meta, txTgt, txMeta,
                   temp, isRunning, queryLV, rows, nextLV, total, loopErr,
                   now, runs>>

\* while running_state['is_running']:
LoopCheck ==
    /\ events' = events
    /\ UNCHANGED <<orch, call>>
    /\ pc = "loop"
    /\ IF isRunning
       THEN pc' = "fetch" /\ h' = h
       ELSE pc' = "final" /\ h' = [h EXCEPT !.exit = "shutdown"]
    /\ UNCHANGED <<method, pkCols, src, schema, tgt, meta, txTgt, txMeta,
                   temp, isRunning, queryLV, rows, nextLV, total, loopErr,
                   now, runs>>

\* The extraction query runs on the source; no rows ends the loop.
Fetch ==
    /\ events' = events
    /\ UNCHANGED <<orch, call>>
    /\ pc = "fetch"
    /\ \E B \in TopN(Candidates(src, queryLV)) :
        /\ rows' = B
        /\ IF B = {}
           THEN /\ pc' = "final"
                /\ nextLV' = nextLV
                /\ h' = [h EXCEPT !.exit = "drained"]
           ELSE /\ pc' = "create"
                /\ nextLV' = Str(SetMax({Wm(r) : r \in B}))
                /\ h' = [h EXCEPT
                           !.batch = [st |-> "open", rows |-> B,
                                      preTgt |-> tgt, preLV |-> meta.LastValue]]
    /\ UNCHANGED <<method, pkCols, src, schema, tgt, meta, txTgt, txMeta,
                   temp, isRunning, queryLV, total, loopErr, now, runs>>

DropTemp_Never(t) == t
\* finally: DROP TABLE ##<table>_sync_<thread>; pyodbc.Error (the table is
\* not there) is swallowed.
DropTemp(t) == NoTemp

\* except Exception as loop_err: the error is kept and the target
\* transaction rolled back (the staging table was dropped on the way out).
Raise(injected) ==
    /\ loopErr' = TRUE
    /\ txTgt' = tgt
    /\ txMeta' = meta
    /\ temp' = DropTemp(temp)
    /\ pc' = "final"
    /\ h' = [h EXCEPT
               !.exit = "raised", !.raised = TRUE,
               !.injected = @ \/ injected,
               !.batch = IF @.st = "open" THEN [@ EXCEPT !.st = "aborted"] ELSE @,
               !.failed = (h.batch.st = "open"),
               !.failLV = IF h.batch.st = "open" THEN queryLV ELSE <<>>,
               !.failRows = IF h.batch.st = "open" THEN rows ELSE {}]
    /\ UNCHANGED <<method, pkCols, src, schema, tgt, meta, isRunning,
                   queryLV, rows, nextLV, total, now, runs>>

\* The source query raises.
FetchFails ==
    /\ events < MaxEvents
    /\ events' = events + 1
    /\ UNCHANGED <<orch, call>>
    /\ pc = "fetch"
    /\ Raise(TRUE)

\* CREATE TABLE ##<table>_sync_<thread>.
CreateTemp ==
    /\ events' = events
    /\ UNCHANGED <<orch, call>>
    /\ pc = "create"
    /\ temp' = [exists |-> TRUE, rows |-> {}]
    /\ pc' = "stage"
    /\ UNCHANGED <<method, pkCols, src, schema, tgt, meta, txTgt, txMeta,
                   isRunning, queryLV, rows, nextLV, total, loopErr, now,
                   runs, h>>

\* executemany: the batch, each row prefixed with the branch identifier.
Stage ==
    /\ events' = events
    /\ UNCHANGED <<orch, call>>
    /\ pc = "stage"
    /\ temp' = [exists |-> TRUE, rows |-> rows]
    /\ pc' = "merge"
    /\ UNCHANGED <<method, pkCols, src, schema, tgt, meta, txTgt, txMeta,
                   isRunning, queryLV, rows, nextLV, total, loopErr, now,
                   runs, h>>

\* MERGE INTO [<table>] USING the staging table.
Merge ==
    /\ events' = events
    /\ UNCHANGED <<orch, call>>
    /\ pc = "merge"
    /\ IF MergeRaises(txTgt, temp.rows)
       THEN Raise(FALSE)
       ELSE /\ txTgt' = MergeRows(txTgt, temp.rows)
            /\ tgt' = Durable(tgt, txTgt')
            /\ pc' = "updlv"
            /\ UNCHANGED <<method, pkCols, src, schema, meta, txMeta, temp,
                           isRunning, queryLV, rows, nextLV, total, loopErr,
                           now, runs, h>>

\* update_last_synced_value, then the finally clause drops the staging table.
UpdateWatermark ==
    /\ events' = events
    /\ UNCHANGED <<orch, call>>
    /\ pc = "updlv"
    /\ txMeta' = UpdateLastValue(txMeta, nextLV)
    /\ meta' = Durable(meta, txMeta')
    /\ temp' = DropTemp(temp)
    /\ pc' = "commit"
    /\ UNCHANGED <<method, pkCols, src, schema, tgt, txTgt, isRunning,
                   queryLV, rows, nextLV, total, loopErr, now, runs, h>>

\* tgt_conn.commit() of the batch; full stops after its one batch.
Commit ==
    /\ events' = events
    /\ UNCHANGED <<orch, call>>
    /\ pc = "commit"
    /\ tgt' = txTgt
    /\ meta' = txMeta
    /\ total' = Min2(total + Cardinality(rows), Counted)
    /\ IF method = "full"
       THEN pc' = "final" /\ queryLV' = queryLV
       ELSE pc' = "loop" /\ queryLV' = nextLV
    /\ h' = [h EXCEPT !.commits = Min2(@ + 1, Counted),
                      !.late = IF isRunning THEN @ ELSE @ + 1,
                      !.cTgt = txTgt,
                      !.cLV = txMeta.LastValue,
                      !.exit = IF method = "full" THEN "fullbreak" ELSE @,
                      !.batch = [@ EXCEPT !.st = "committed"]]
    /\ UNCHANGED <<method, pkCols, src, schema, txTgt, txMeta, temp,
                   isRunning, rows, nextLV, loopErr, now, runs>>

\* A statement of the batch (or its commit) raises.
StepFails ==
    /\ events < MaxEvents
    /\ events' = events + 1
    /\ UNCHANGED <<orch, call>>
    /\ pc \in {"create", "stage", "merge", "updlv", "commit"}
    /\ Raise(TRUE)

FinalStatus_CompleteWithRows(err, n) == IF err /\ n = 0 THEN "Failed" ELSE "Complete"
FinalStatus_NeedsRows(err, n) == IF err \/ n = 0 THEN "Failed" ELSE "Complete"
FinalStatus_AlwaysFailed(err, n) == IF err THEN "Failed" ELSE "Complete"
\* final_status: 'Complete', or on an error (a shutdown counts as one)
\* 'Pending' if rows were synced in this run else 'Failed'.
FinalStatus(err, n) ==
    IF err THEN (IF n > 0 THEN "Pending" ELSE "Failed") ELSE "Complete"

\* Final status update and its commit.
Final ==
    /\ events' = events
    /\ UNCHANGED <<orch, call>>
    /\ pc = "final"
    /\ meta' = UpdateStatus(txMeta, FinalStatus(loopErr \/ ~isRunning, total))
    /\ txMeta' = meta'
    /\ tgt' = txTgt
    /\ Return
    /\ h' = [h EXCEPT !.kind = "final", !.stopped = ~isRunning]
    /\ UNCHANGED <<method, pkCols, src, schema, txTgt, isRunning, now, runs>>

\* finally: both connections are closed (what the target session left
\* open is rolled back) and the function is left.
Close ==
    /\ events' = events
    /\ UNCHANGED <<orch, call>>
    /\ pc = "close"
    /\ Gone
    /\ txTgt' = tgt
    /\ txMeta' = meta
    /\ h' = [NoHist EXCEPT !.srcSame = h.srcSame, !.failed = h.failed,
                           !.failLV = h.failLV, !.failRows = h.failRows]
    /\ UNCHANGED <<method, pkCols, src, schema, tgt, meta, isRunning, now,
                   runs>>

\* ------------------------------------------------------- the environment
\* The process is killed: the server rolls the open transaction back and
\* drops the session's staging table; a new process starts running.
Crash ==
    /\ events < MaxEvents
    /\ events' = events + 1
    /\ UNCHANGED <<orch, call>>
    /\ pc # "idle"
    /\ Gone
    /\ txTgt' = tgt
    /\ txMeta' = meta
    /\ isRunning' = TRUE
    /\ h' = [NoHist EXCEPT !.srcSame = h.srcSame, !.failed = h.failed,
                           !.failLV = h.failLV, !.failRows = h.failRows]
    /\ UNCHANGED <<method, pkCols, src, schema, tgt, meta, now, runs>>

\* handle_exit: the first signal clears the flag.
Shutdown ==
    /\ events < MaxEvents
    /\ events' = events + 1
    /\ UNCHANGED <<orch, call>>
    /\ isRunning
    /\ isRunning' = FALSE
    /\ UNCHANGED <<method, pkCols, src, schema, tgt, meta, txTgt, txMeta,
                   temp, pc, queryLV, rows, nextLV, total, loopErr, now, runs,
                   h>>

\* The process is started again after a shutdown.
Restart ==
    /\ events' = events
    /\ UNCHANGED <<orch, call>>
    /\ pc = "idle" /\ ~isRunning
    /\ isRunning' = TRUE
    /\ UNCHANGED <<method, pkCols, src, schema, tgt, meta, txTgt, txMeta,
                   temp, pc, queryLV, rows, nextLV, total, loopErr, now, runs,
                   h>>

\* Between two invocations the branch inserts a row, deletes a row, or
\* changes a data column (one change between two invocations).
SrcChange ==
    /\ events < MaxEvents
    /\ events' = events + 1
    /\ UNCHANGED <<orch, call>>
    /\ pc = "idle" /\ 1 <= runs /\ runs < MaxRuns
    /\ h.srcSame
    /\ \/ \E r \in SrcRows \ src :
            /\ Cardinality(src) < MaxRows
            /\ PkUnique(src \cup {r}, pkCols)
            /\ src' = src \cup {r}
       \/ \E r \in src : src' = src \ {r}
       \/ \E r \in src, v \in Subs :
            /\ pkCols = 1 /\ v # r.k2
            /\ src' = (src \ {r}) \cup {[r EXCEPT !.k2 = v]}
    /\ h' = [h EXCEPT !.srcSame = FALSE, !.failed = FALSE,
                      !.failLV = <<>>, !.failRows = {}]
    /\ UNCHANGED <<method, pkCols, schema, tgt, meta, txTgt, txMeta, temp,
                   isRunning, pc, queryLV, rows, nextLV, total, loopErr, now,
                   runs>>

Next ==
    \/ Start \/ StartCancelled \/ BeginCycle \/ BeginFails \/ CheckRunning
    \/ Align \/ AlignFails \/ Prepare \/ LoopCheck \/ Fetch \/ FetchFails
    \/ CreateTemp \/ Stage \/ Merge \/ UpdateWatermark \/ Commit \/ StepFails
    \/ Final \/ Close \/ Crash \/ Shutdown \/ Restart \/ SrcChange

Spec == Init /\ [][Next]_vars

\* The same engine over every source and target schema.
NextSchema == Next \/ AlignMismatch \/ PrepareFails

SpecSchema == InitSchema /\ [][NextSchema]_vars

\* ------------------------------------------------------- the orchestrator
\* main.py (outer loop, main_sync_cycle) and sync_branch: the main thread,
\* one branch task per source in a pool of MAX_DB_SYNC_WORKERS threads,
\* and per branch task one table task per entry of TABLES_TO_SYNC in a pool
\* of MAX_CONCURRENT_TABLES_PER_BRANCH threads.  A table task is sync_table
\* reduced to its checks of the flag, its batch loop and its outcome.
tableVars == <<method, pkCols, src, tgtTable, tgtPk, tgtBranchCol, tgt, meta,
               txTgt, txMeta, temp, pc, queryLV, rows, nextLV, total, loopErr,
               now, runs, h>>

\* One table worker is not run step by step here: it stays idle.
InitCycle ==
    /\ Unsynced
    /\ \E c \in Configs : OrchIdle(c[1], c[2])
    /\ method = "autono"
    /\ pkCols = 1
    /\ src = {}
    /\ tgtTable = FALSE
    /\ tgtBranchCol = FALSE
    /\ tgtPk = {}

IsRunning_Stale == TRUE
\* running_state['is_running'] as the main thread reads it.
IsRunning == isRunning

PoolHasFreeWorker_Unbounded(n, max) == TRUE
\* ThreadPoolExecutor: a queued task starts when fewer than max_workers
\* threads are busy.
PoolHasFreeWorker(n, max) == n < max

CancelPending_OnFailure(running, out) == ~running \/ out = "skipped"
\* if not current_running_state['is_running']: cancel what has not started
\* and stop collecting; the outcome of the branch is only logged.
CancelPending(running, out) == ~running

BranchRunning(s) == bt[s].st \in {"check", "tables"}
TableRunning(s, t) == tt[s][t].st \in {"setup", "loop"}
BranchesRunning == {s \in SourceConfigs : BranchRunning(s)}
TablesRunning(s) == {t \in TABLES_TO_SYNC : TableRunning(s, t)}

\* A step of the main thread or of a pool thread that is no fault.
Step ==
    /\ events' = events
    /\ isRunning' = isRunning
    /\ UNCHANGED tableVars
    /\ UNCHANGED call
\* An injected failure.
Fault ==
    /\ events < MaxEvents
    /\ events' = events + 1
    /\ isRunning' = isRunning
    /\ UNCHANGED tableVars
    /\ UNCHANGED call

\* while running_state['is_running']: if not in_allowed_sync_window(): ...
MainTop ==
    /\ mainPc = "top"
    /\ Step
    /\ IF ~IsRunning
       THEN mainPc' = "exited" /\ wleft' = wleft
       ELSE \/ mainPc' = "wcheck" /\ wleft' = MaxWait
            \/ mainPc' = "submit" /\ wleft' = wleft
    /\ UNCHANGED <<seen, bt, tt>>

\* for _ in range(ALLOWED_WINDOW_CHECK_INTERVAL_SECONDS // 5):
\*     if not running_state['is_running']: break
WindowCheck ==
    /\ mainPc = "wcheck"
    /\ Step
    /\ mainPc' = IF wleft = 0 \/ ~IsRunning THEN "wlast" ELSE "wsleep"
    /\ UNCHANGED <<wleft, seen, bt, tt>>

\* time.sleep(20000) ends.
WindowSleep ==
    /\ mainPc = "wsleep"
    /\ Step
    /\ wleft' = wleft - 1
    /\ mainPc' = "wcheck"
    /\ UNCHANGED <<seen, bt, tt>>

\* if not running_state['is_running']: break / continue
WindowLast ==
    /\ mainPc = "wlast"
    /\ Step
    /\ mainPc' = IF ~IsRunning THEN "exited" ELSE "top"
    /\ UNCHANGED <<wleft, seen, bt, tt>>

\* main_sync_cycle: one sync_branch future per source is submitted.
Submit ==
    /\ mainPc = "submit"
    /\ Step
    /\ seen' = {}
    /\ bt' = [s \in SourceConfigs |-> [NoBranch EXCEPT !.st = "queued"]]
    /\ tt' = [s \in SourceConfigs |-> [t \in TABLES_TO_SYNC |-> NoTable]]
    /\ mainPc' = "collect"
    /\ UNCHANGED wleft

\* for future in as_completed(future_to_src): the result is logged; on
\* shutdown what has not started is cancelled and the loop left.
Collect(s) ==
    /\ mainPc = "collect"
    /\ Step
    /\ s \notin seen /\ bt[s].st = "done"
    /\ seen' = seen \cup {s}
    /\ IF CancelPending(IsRunning, bt[s].out)
       THEN /\ bt' = [x \in SourceConfigs |->
                        IF bt[x].st = "queued"
                        THEN [bt[x] EXCEPT !.st = "cancelled"] ELSE bt[x]]
            /\ mainPc' = "join"
       ELSE /\ bt' = bt
            /\ mainPc' = IF seen' = SourceConfigs THEN "join" ELSE "collect"
    /\ UNCHANGED <<wleft, tt>>

Join_NoWait ==
    /\ mainPc = "join"
    /\ events' = events
    /\ isRunning' = isRunning
    /\ UNCHANGED <<method, pkCols, src, tgtTable, tgtPk, tgtBranchCol, tgt, meta,
                   txTgt, txMeta, temp, pc, queryLV, rows, nextLV, total,
                   loopErr, now, runs, h, call>>
    /\ mainPc' = "after"
    /\ seen' = {}
    /\ UNCHANGED <<wleft, bt, tt>>
\* The with block of the pool ends: the running branch tasks are awaited,
\* main_sync_cycle returns and its futures are gone.
Join ==
    /\ mainPc = "join"
    /\ Step
    /\ \A s \in SourceConfigs : bt[s].st \in {"done", "cancelled"}
    /\ mainPc' = "after"
    /\ seen' = {}
    /\ bt' = [s \in SourceConfigs |-> NoBranch]
    /\ UNCHANGED <<wleft, tt>>

\* if running_state['is_running']: wait RUN_INTERVAL_SECONDS.
AfterCycle ==
    /\ mainPc = "after"
    /\ Step
    /\ IF IsRunning
       THEN mainPc' = "scheck" /\ wleft' = MaxWait
       ELSE mainPc' = "last" /\ wleft' = wleft
    /\ UNCHANGED <<seen, bt, tt>>

\* for _ in range(RUN_INTERVAL_SECONDS):
\*     if not running_state['is_running']: break
WaitCheck ==
    /\ mainPc = "scheck"
    /\ Step
    /\ mainPc' = IF wleft = 0 \/ ~IsRunning THEN "last" ELSE "ssleep"
    /\ UNCHANGED <<wleft, seen, bt, tt>>

\* time.sleep(1) ends.
WaitSleep ==
    /\ mainPc = "ssleep"
    /\ Step
    /\ wleft' = wleft - 1
    /\ mainPc' = "scheck"
    /\ UNCHANGED <<seen, bt, tt>>

\* if not running_state['is_running']: break
Last ==
    /\ mainPc = "last"
    /\ Step
    /\ mainPc' = IF ~IsRunning THEN "exited" ELSE "top"
    /\ UNCHANGED <<wleft, seen, bt, tt>>

Main ==
    \/ MainTop \/ WindowCheck \/ WindowSleep \/ WindowLast \/ Submit
    \/ (\E s \in SourceConfigs : Collect(s)) \/ Join \/ AfterCycle
    \/ WaitCheck \/ WaitSleep \/ Last

\* A thread of the outer pool takes the oldest queued branch task.
StartBranch(s) ==
    /\ Step
    /\ bt[s].st = "queued"
    /\ \A x \in SourceConfigs : x < s => bt[x].st # "queued"
    /\ PoolHasFreeWorker(Cardinality(BranchesRunning), MAX_DB_SYNC_WORKERS)
    /\ bt' = [bt EXCEPT ![s].st = "check"]
    /\ UNCHANGED <<mainPc, wleft, seen, tt>>

\* sync_branch: the flag is checked, the branch identifier resolved and
\* one sync_table future per table submitted.
ResolveBranch(s) ==
    /\ Step
    /\ bt[s].st = "check"
    /\ IF ~isRunning
       THEN /\ bt' = [bt EXCEPT ![s].st = "done", ![s].out = "stopped"]
            /\ tt' = tt
       ELSE \E nm \in BranchNames(s) :
            /\ bt' = [bt EXCEPT ![s].st = "tables", ![s].name = nm]
            /\ tt' = [tt EXCEPT ![s] =
                        [t \in TABLES_TO_SYNC |-> [NoTable EXCEPT !.st = "queued"]]]
    /\ UNCHANGED <<mainPc, wleft, seen>>

\* The source cannot be reached for its branch name: the branch is skipped.
ResolveFails(s) ==
    /\ Fault
    /\ bt[s].st = "check" /\ isRunning
    /\ bt' = [bt EXCEPT ![s].st = "done", ![s].out = "skipped"]
    /\ UNCHANGED <<mainPc, wleft, seen, tt>>

\* as_completed(futures) is exhausted and the inner pool shut down: the
\* futures are gone, the branch task returns.
BranchDone(s) ==
    /\ Step
    /\ bt[s].st = "tables"
    /\ \A t \in TABLES_TO_SYNC : tt[s][t].st = "done"
    /\ bt' = [bt EXCEPT ![s].st = "done", ![s].out = "ok", ![s].name = ""]
    /\ tt' = [tt EXCEPT ![s] = [t \in TABLES_TO_SYNC |-> NoTable]]
    /\ UNCHANGED <<mainPc, wleft, seen>>

\* The steps of the pool thread that runs the branch task of source s.
BranchStep(s) ==
    /\ s \in SourceConfigs
    /\ StartBranch(s) \/ ResolveBranch(s) \/ BranchDone(s)

\* The table task ends; the branch task counts those that end Complete
\* (the count is read only by the properties).
Finish(s, t, status) ==
    /\ tt' = [tt EXCEPT ![s][t].st = "done"]
    /\ bt' = [bt EXCEPT ![s].complete =
                IF status = "Complete" THEN @ + 1 ELSE @]

\* A thread of the branch's pool takes the oldest queued table task.
StartTable(s, t) ==
    /\ Step
    /\ tt[s][t].st = "queued"
    /\ \A x \in TABLES_TO_SYNC : x < t => tt[s][x].st # "queued"
    /\ PoolHasFreeWorker(Cardinality(TablesRunning(s)),
                         MAX_CONCURRENT_TABLES_PER_BRANCH)
    /\ tt' = [tt EXCEPT ![s][t].st = "setup"]
    /\ UNCHANGED <<mainPc, wleft, seen, bt>>

\* sync_table up to the batch loop: the checks of the flag, connections,
\* InProgress committed, schema alignment, preparation of the loop.
WorkerSetup(s, t) ==
    /\ Step
    /\ tt[s][t].st = "setup"
    /\ IF ~isRunning
       THEN Finish(s, t, "stopped")
       ELSE tt' = [tt EXCEPT ![s][t].st = "loop"] /\ bt' = bt
    /\ UNCHANGED <<mainPc, wleft, seen>>

\* A connection cannot be opened, or schema alignment fails.
WorkerSetupFails(s, t) ==
    /\ Fault
    /\ tt[s][t].st = "setup" /\ isRunning
    /\ Finish(s, t, "failed")
    /\ UNCHANGED <<mainPc, wleft, seen>>

\* while running_state['is_running']: batches are fetched, merged and
\* committed (which changes nothing the orchestrator sees) until no rows
\* are left: status Complete; or the flag is found false: the loop ends
\* and the final status is that of an interrupted run.
WorkerLoop(s, t) ==
    /\ Step
    /\ tt[s][t].st = "loop"
    /\ IF isRunning THEN Finish(s, t, "Complete") ELSE Finish(s, t, "stopped")
    /\ UNCHANGED <<mainPc, wleft, seen>>

\* A statement of a batch raises: rollback, status Failed or Pending.
WorkerBatchFails(s, t) ==
    /\ Fault
    /\ tt[s][t].st = "loop" /\ isRunning
    /\ Finish(s, t, "failed")
    /\ UNCHANGED <<mainPc, wleft, seen>>

\* The steps of the pool thread that runs table task t of source s.
TableStep(s, t) ==
    /\ s \in SourceConfigs /\ t \in TABLES_TO_SYNC
    /\ StartTable(s, t) \/ WorkerSetup(s, t) \/ WorkerLoop(s, t)

\* handle_exit: the first signal clears the flag.
HandleExit ==
    /\ isRunning /\ mainPc # "exited"
    /\ isRunning' = FALSE
    /\ events' = events
    /\ UNCHANGED tableVars
    /\ UNCHANGED <<orch, call>>

NextCycle ==
    \/ MainTop \/ WindowCheck \/ WindowSleep \/ WindowLast \/ Submit
    \/ (\E s \in SourceConfigs : Collect(s)) \/ Join \/ AfterCycle
    \/ WaitCheck \/ WaitSleep \/ Last
    \/ (\E s \in SourceConfigs :
          StartBranch(s) \/ ResolveBranch(s) \/ ResolveFails(s) \/ BranchDone(s))
    \/ (\E s \in SourceConfigs, t \in TABLES_TO_SYNC :
          \/ StartTable(s, t) \/ WorkerSetup(s, t) \/ WorkerSetupFails(s, t)
          \/ WorkerLoop(s, t) \/ WorkerBatchFails(s, t))
    \/ HandleExit

SpecCycle == InitCycle /\ [][NextCycle]_vars

\* A step of some thread of the process.
Progress ==
    \/ Main
    \/ \E s \in SourceConfigs : BranchStep(s)
    \/ \E s \in SourceConfigs, t \in TABLES_TO_SYNC : TableStep(s, t)

\* As long as some thread can take a step, one does: database calls
\* return and sleeps end.  Which thread runs is left to the scheduler;
\* signals and failures need not happen.
SpecCycleFair == SpecCycle /\ WF_vars(Progress)

\* --------------------------------------------- the outer loop of main.py
\* The outer loop with the window check computed from the configured
\* times and the clock, driving one source with one table.

\* Values of allowed_start_time and allowed_end_time in sync_config.py,
\* as <<hours, minutes>> of the text "HH:MM"; "24:00" is a text that
\* strptime rejects.
ConfigTimes == {<<0, 0>>, <<6, 0>>, <<23, 30>>, <<24, 0>>}
\* The windows configured: the one shipped (00:00-00:00), one within a
\* day, one that wraps midnight, and two with a text that does not parse.
Windows ==
    {<<a, b>> \in ConfigTimes \X ConfigTimes :
        \/ a = <<0, 0>> /\ b = <<0, 0>>
        \/ a = <<6, 0>> /\ b \in {<<23, 30>>, <<24, 0>>}
        \/ a = <<23, 30>> /\ b = <<6, 0>>
        \/ a = <<24, 0>> /\ b = <<6, 0>>}
\* Values of datetime.now().time() as <<hour, minute, second>>.
ClockTimes ==
    {<<0, 0, 0>>, <<5, 59, 59>>, <<6, 0, 0>>, <<12, 0, 0>>, <<23, 29, 59>>, <<23, 30, 0>>}

\* datetime.strptime(text, "%H:%M").time(): a time of day with second 0,
\* or ValueError.
Strptime(text) ==
    IF text[1] \in 0..23 /\ text[2] \in 0..59
    THEN [ok |-> TRUE, time |-> <<text[1], text[2], 0>>]
    ELSE [ok |-> FALSE, time |-> <<>>]

\* datetime.time objects compare by hour, then minute, then second.
TimeLess(a, b) ==
    \/ a[1] < b[1]
    \/ a[1] = b[1] /\ a[2] < b[2]
    \/ a[1] = b[1] /\ a[2] = b[2] /\ a[3] < b[3]
TimeLeq(a, b) == a = b \/ TimeLess(a, b)

in_allowed_sync_window_NoWrap(now_time, allowed_start_time, allowed_end_time) ==
    LET s == Strptime(allowed_start_time)
        e == Strptime(allowed_end_time)
    IN  IF ~s.ok \/ ~e.ok THEN TRUE
        ELSE IF s.time = e.time THEN TRUE
        ELSE TimeLeq(s.time, now_time) /\ TimeLess(now_time, e.time)
\* in_allowed_sync_window(): a text that does not parse allows the sync.
in_allowed_sync_window(now_time, allowed_start_time, allowed_end_time) ==
    LET start_time_obj == Strptime(allowed_start_time)
        end_time_obj == Strptime(allowed_end_time)
    IN  IF ~start_time_obj.ok \/ ~end_time_obj.ok THEN TRUE
        ELSE IF start_time_obj.time = end_time_obj.time THEN TRUE
        ELSE IF TimeLess(start_time_obj.time, end_time_obj.time)
        THEN /\ TimeLeq(start_time_obj.time, now_time)
             /\ TimeLess(now_time, end_time_obj.time)
        ELSE \/ TimeLeq(start_time_obj.time, now_time)
             \/ TimeLess(now_time, end_time_obj.time)

\* One source, one table, any configured window; no check made yet.
InitMain ==
    /\ Unsynced
    /\ mainPc = "top"
    /\ wleft = 0
    /\ seen = {}
    /\ bt = [s \in 1..1 |-> NoBranch]
    /\ tt = [s \in 1..1 |-> [t \in 1..1 |-> NoTable]]
    /\ \E w \in Windows :
          call = [fn |-> "window", start |-> w[1], end |-> w[2],
                  now_time |-> <<0, 0, 0>>, res |-> FALSE, cfg |-> NoFile]
    /\ method = "autono"
    /\ pkCols = 1
    /\ src = {}
    /\ tgtTable = FALSE
    /\ tgtBranchCol = FALSE
    /\ tgtPk = {}

\* while running_state['is_running']: if not in_allowed_sync_window(): ...
\* else main_sync_cycle(running_state)
OuterLoopTop ==
    /\ mainPc = "top"
    /\ events' = events
    /\ isRunning' = isRunning
    /\ UNCHANGED tableVars
    /\ IF ~IsRunning
       THEN mainPc' = "exited" /\ wleft' = wleft /\ call' = call
       ELSE \E t \in ClockTimes :
              LET r == in_allowed_sync_window(t, call.start, call.end)
              IN  /\ call' = [call EXCEPT !.now_time = t, !.res = r]
                  /\ IF r
                     THEN mainPc' = "submit" /\ wleft' = wleft
                     ELSE mainPc' = "wcheck" /\ wleft' = MaxWait
    /\ UNCHANGED <<seen, bt, tt>>

\* connection_strings.txt: missing, unreadable, or lines each of which
\* names the target (flag yes), names a source (any other flag) or is
\* malformed (neither five nor six fields).
Flags == {"yes", "no", "malformed"}
Files ==
    {[st |-> x, lines |-> <<>>] : x \in {"missing", "unreadable"}}
    \cup {[st |-> "read", lines |-> l] :
            l \in UNION {[1..n -> Flags] : n \in 0..MaxLines}}

\* load_connections: the configurations of the well-formed lines, in
\* order (each reduced to its target_flag), or the exception of open().
load_connections(file) ==
    IF file.st = "missing" THEN [exc |-> "FileNotFoundError", conns |-> <<>>]
    ELSE IF file.st = "unreadable" THEN [exc |-> "Exception", conns |-> <<>>]
    ELSE [exc |-> "none",
          conns |-> SelectSeq(file.lines, LAMBDA line : line # "malformed")]

IsSource_Any(target_flag) == TRUE
\* cfg.get('target_flag','no') != 'yes'
IsSource(target_flag) == target_flag # "yes"
\* next((cfg for cfg in connection_configs if ... == 'yes'), None)
HasTarget(connection_configs) ==
    \E i \in DOMAIN connection_configs : connection_configs[i] = "yes"
source_configs(connection_configs) == SelectSeq(connection_configs, IsSource)

CycleCatches_FileOnly(exc) == exc = "FileNotFoundError"
\* except FileNotFoundError: ... except Exception as e: ...
CycleCatches(exc) == exc \in {"FileNotFoundError", "Exception"}

\* main_sync_cycle up to the submission of the branch tasks: the file is
\* read again in every cycle.
MainSyncCycle ==
    /\ mainPc = "submit"
    /\ events' = events
    /\ isRunning' = isRunning
    /\ UNCHANGED tableVars
    /\ \E file \in Files :
         LET r == load_connections(file)
             n == Len(source_configs(r.conns))
         IN  /\ call' = [call EXCEPT !.cfg = file]
             /\ IF r.exc # "none"
                THEN /\ mainPc' = IF CycleCatches(r.exc) THEN "after" ELSE "crashed"
                     /\ UNCHANGED <<seen, bt, tt>>
                ELSE IF ~HasTarget(r.conns) \/ n = 0
                THEN /\ mainPc' = "after"
                     /\ UNCHANGED <<seen, bt, tt>>
                ELSE /\ seen' = {}
                     /\ bt' = [s \in 1..n |-> [NoBranch EXCEPT !.st = "queued"]]
                     /\ tt' = [s \in 1..n |-> [t \in TABLES_TO_SYNC |-> NoTable]]
                     /\ mainPc' = "collect"
    /\ UNCHANGED wleft

\* The inner pool cannot be started (threads are exhausted): the branch
\* task ends with the exception, which future.result() raises in
\* main_sync_cycle, where it is logged.
BranchRaises(s) ==
    /\ Fault
    /\ bt[s].st = "check" /\ isRunning
    /\ bt' = [bt EXCEPT ![s].st = "done", ![s].out = "raised"]
    /\ UNCHANGED <<mainPc, wleft, seen, tt>>

\* Closing a connection in the finally block of sync_table raises: the
\* table task ends with the exception, which future.result() raises in
\* sync_branch, where it is logged.
TableRaises(s, t) ==
    /\ Fault
    /\ TableRunning(s, t)
    /\ Finish(s, t, "raised")
    /\ UNCHANGED <<mainPc, wleft, seen>>

NextMain ==
    \/ OuterLoopTop \/ WindowCheck \/ WindowSleep \/ WindowLast \/ MainSyncCycle
    \/ (\E s \in SourceConfigs : Collect(s)) \/ Join \/ AfterCycle
    \/ WaitCheck \/ WaitSleep \/ Last
    \/ (\E s \in SourceConfigs :
          \/ StartBranch(s) \/ ResolveBranch(s) \/ ResolveFails(s)
          \/ BranchRaises(s) \/ BranchDone(s))
    \/ (\E s \in SourceConfigs, t \in TABLES_TO_SYNC :
          \/ StartTable(s, t) \/ WorkerSetup(s, t) \/ WorkerSetupFails(s, t)
          \/ WorkerLoop(s, t) \/ WorkerBatchFails(s, t) \/ TableRaises(s, t))
    \/ HandleExit

SpecMain == InitMain /\ [][NextMain]_vars

\* A step of some thread of the process, with the file and the clock as
\* they are found.
ProgressMain ==
    \/ OuterLoopTop \/ WindowCheck \/ WindowSleep \/ WindowLast \/ MainSyncCycle
    \/ (\E s \in SourceConfigs : Collect(s)) \/ Join \/ AfterCycle
    \/ WaitCheck \/ WaitSleep \/ Last
    \/ \E s \in SourceConfigs : BranchStep(s)
    \/ \E s \in SourceConfigs, t \in TABLES_TO_SYNC : TableStep(s, t)

SpecMainFair == SpecMain /\ WF_vars(ProgressMain)

\* ------------------------------------------------------ _get_branch_name
\* Texts are sequences of characters: an upper-case letter, its lower-case
\* letter and the blank.
Chars == {"A", "a", " "}
Texts(n) == UNION {[1..k -> Chars] : k \in 0..n}

\* str.strip(): blanks are removed from both ends.
RECURSIVE LStrip(_)
LStrip(text) ==
    IF text # <<>> /\ Head(text) = " " THEN LStrip(Tail(text)) ELSE text
RECURSIVE RStrip(_)
RStrip(text) ==
    IF text # <<>> /\ text[Len(text)] = " "
    THEN RStrip(SubSeq(text, 1, Len(text) - 1)) ELSE text
Strip(text) == RStrip(LStrip(text))
Lower_Identity(text) == text
\* str.lower()
Lower(text) == [i \in 1..Len(text) |-> IF text[i] = "A" THEN "a" ELSE text[i]]

\* The Logo table of a source: missing (the query raises), empty, or one
\* row whose BOTMESS1 is NULL or a text.
Null == [null |-> TRUE, text |-> <<>>]
Value(text) == [null |-> FALSE, text |-> text]
Logos ==
    {[table |-> FALSE, rows |-> {}], [table |-> TRUE, rows |-> {}]}
    \cup {[table |-> TRUE, rows |-> {v}] :
            v \in {Null} \cup {Value(x) : x \in Texts(MaxLen)}}
\* source_config['database'], as load_connections stripped it.
Databases == {x \in Texts(2) : x # <<>> /\ Strip(x) = x}

\* The cursor is open, nothing is executed yet.
InitName ==
    /\ Unsynced
    /\ mainPc = "top"
    /\ wleft = 0
    /\ seen = {}
    /\ bt = [s \in 1..1 |-> NoBranch]
    /\ tt = [s \in 1..1 |-> [t \in 1..1 |-> NoTable]]
    /\ \E logo \in Logos, db \in Databases :
          call = [fn |-> "name", logo |-> logo, database |-> db,
                  at |-> "execute", row |-> {}, error |-> FALSE, res |-> <<>>]
    /\ method = "autono"
    /\ pkCols = 1
    /\ src = {}
    /\ tgtTable = FALSE
    /\ tgtBranchCol = FALSE
    /\ tgtPk = {}

NameFrame ==
    /\ events' = events
    /\ isRunning' = isRunning
    /\ UNCHANGED tableVars
    /\ UNCHANGED orch

\* execute("SELECT TOP 1 BOTMESS1 FROM Logo"); fetchone(): the row, no
\* row, or pyodbc.Error (always when the table is missing).
ExecuteLogo ==
    /\ call.at = "execute"
    /\ NameFrame
    /\ \/ /\ call.logo.table
          /\ call' = [call EXCEPT !.at = "fetched", !.row = call.logo.rows]
       \/ call' = [call EXCEPT !.at = "fetched", !.error = TRUE]

\* if row and row[0] and str(row[0]).strip(): the stripped, lower-cased
\* value; otherwise, and after pyodbc.Error, the lower-cased database name.
ReturnBranchName ==
    /\ call.at = "fetched"
    /\ NameFrame
    /\ call' = [call EXCEPT
         !.at = "returned",
         !.res = IF /\ ~call.error
                    /\ \E r \in call.row : ~r.null /\ r.text # <<>> /\ Strip(r.text) # <<>>
                 THEN LET r == CHOOSE r \in call.row : TRUE
                      IN  Lower(Strip(r.text))
                 ELSE Lower(call.database)]

NextName == ExecuteLogo \/ ReturnBranchName
SpecName == InitName /\ [][NextName]_vars

\* ------------------------------------------- two branches, one table
\* The worker of another branch commits a batch of one row merged into
\* the same consolidated table: its statement joins on its own
\* BranchIdentifier and the first key column.
OtherMerge(T, k, v) ==
    [r \in TgtRows |->
        IF r.b = OtherBranch /\ r.k1 = k
        THEN (IF r.k2 = v THEN 1 ELSE 0)
        ELSE T[r]]

\* The commit is seen by the open transaction of this worker as well.
OtherBranchCommits ==
    /\ tgtTable /\ tgtBranchCol
    /\ \E k \in Keys, v \in Subs :
          /\ tgt' = OtherMerge(tgt, k, v)
          /\ txTgt' = OtherMerge(txTgt, k, v)
    /\ events < MaxEvents
    /\ events' = events + 1
    /\ UNCHANGED <<method, pkCols, src, schema, meta, txMeta, temp, isRunning,
                   pc, queryLV, rows, nextLV, total, loopErr, now, runs, h>>
    /\ UNCHANGED <<orch, call>>

\* A source of at most a batch, synced by the default method (the MERGE
\* statement is the same for all); the consolidated table exists already,
\* created by the worker of the other branch.
InitBranches ==
    /\ Fresh
    /\ method = "autono"
    /\ pkCols \in {1, 2}
    /\ src \in {S \in Sources(pkCols) : Cardinality(S) <= BatchSize}
    /\ tgtTable = TRUE
    /\ tgtBranchCol = TRUE
    /\ tgtPk = ExpectedPk

NextBranches == Next \/ OtherBranchCommits
SpecBranches == InitBranches /\ [][NextBranches]_vars

\* -------------------------------------- align_target_schema_to_source
\* The reconciliation of one table, column by column.  A column is what
\* INFORMATION_SCHEMA.COLUMNS tells of it: data_type, max_length (a text,
\* "None" for no length, "-1" for MAX) and is_nullable.
Column(data_type, max_length, is_nullable) ==
    [data_type |-> data_type, max_length |-> max_length, is_nullable |-> is_nullable]
ColumnDetails ==
    {Column(t[1], t[2], n) :
        t \in {<<"int", "None">>, <<"nvarchar", "10">>, <<"nvarchar", "-1">>},
        n \in BOOLEAN}
\* BRANCH_ID_TYPE = "NVARCHAR(255)"
BRANCH_ID_TYPE == <<"NVARCHAR", "255">>

\* get_sql_type_definition: the upper-cased type, with its length or MAX
\* for the character types.
get_sql_type_definition(col_details) ==
    IF col_details.data_type = "nvarchar"
    THEN <<"NVARCHAR",
           IF col_details.max_length \notin {"-1", "None"}
           THEN col_details.max_length ELSE "MAX">>
    ELSE <<"INT">>
Nullability_Null(col_details) == "NULL"
\* "NOT NULL" if not col_details['is_nullable'] else "NULL"
Nullability(col_details) == IF ~col_details.is_nullable THEN "NOT NULL" ELSE "NULL"

\* The column the server makes of [name] <type> <nullability>.
SqlColumn(type_def, nullability) ==
    Column(IF type_def[1] = "NVARCHAR" THEN "nvarchar" ELSE "int",
           IF Len(type_def) = 1 THEN "None"
           ELSE IF type_def[2] = "MAX" THEN "-1" ELSE type_def[2],
           nullability = "NULL")

\* get_table_schema_details of a table that does not exist: None.
NoSchema == [exists |-> FALSE, columns |-> <<>>, primary_key_columns |-> {}]
Schema(columns, pk) == [exists |-> TRUE, columns |-> columns, primary_key_columns |-> pk]

\* The source table: missing, or a key column k1 and possibly a column c
\* of any type, with or without a primary key.
SourceSchemas ==
    {NoSchema} \cup
    {Schema(cols, pk) :
        cols \in {("k1" :> Column("int", "None", FALSE))}
                 \cup {("k1" :> Column("int", "None", FALSE)) @@ ("c" :> d) : d \in ColumnDetails},
        pk \in {{}, {"k1"}}}

\* The consolidated table: missing, or any table over BranchIdentifier,
\* k1, c and a column x the source does not have, with no primary key, the
\* source's or the composite one.
TargetSchemas ==
    {NoSchema} \cup
    {Schema(cols, pk) :
        cols \in {[n \in N |->
                     IF n = BRANCH_ID_COL THEN Column("nvarchar", "255", b)
                     ELSE IF n = "k1" THEN Column("int", "None", FALSE)
                     ELSE IF n = "c" THEN d
                     ELSE Column("int", "None", TRUE)] :
                  N \in (SUBSET {BRANCH_ID_COL, "k1", "c", "x"}) \ {{}},
                  b \in BOOLEAN, d \in ColumnDetails},
        pk \in {{}, {"k1"}, {BRANCH_ID_COL, "k1"}}}
\* A primary key is made of columns of the table that are not nullable.
WellFormed(schema_details) ==
    \A n \in schema_details.primary_key_columns :
       /\ n \in DOMAIN schema_details.columns
       /\ ~schema_details.columns[n].is_nullable

\* align_target_schema_to_source is called; the target session has no
\* statement pending.
InitAlign ==
    /\ Unsynced
    /\ mainPc = "top"
    /\ wleft = 0
    /\ seen = {}
    /\ bt = [s \in 1..1 |-> NoBranch]
    /\ tt = [s \in 1..1 |-> [t \in 1..1 |-> NoTable]]
    /\ \E source \in SourceSchemas, target \in {t \in TargetSchemas : WellFormed(t)} :
          call = [fn |-> "align", source |-> source, target |-> target,
                  tx |-> target, start |-> target, target_schema |-> NoSchema,
                  todo |-> <<>>, schema_changed |-> FALSE, at |-> "begin",
                  res |-> FALSE]
    /\ method = "autono"
    /\ pkCols = 1
    /\ src = {}
    /\ tgtTable = FALSE
    /\ tgtBranchCol = FALSE
    /\ tgtPk = {}

\* return <result>
Returns(c, result) == [c EXCEPT !.at = "returned", !.res = result]
\* target_cursor.connection.rollback()
RolledBack(c) == [c EXCEPT !.tx = c.target]
\* target_cursor.connection.commit()
Committed(c) == [c EXCEPT !.target = c.tx]

\* Both schemas are read; a missing source table ends the call, and a
\* failed query on the target reads like a missing target table.
AlignBegin ==
    /\ call.at = "begin"
    /\ NameFrame
    /\ IF ~call.source.exists
       THEN call' = Returns(call, FALSE)
       ELSE \E ts \in {call.tx, NoSchema} :
              call' = [call EXCEPT !.target_schema = ts,
                                   !.at = IF ts.exists THEN "branchcol" ELSE "create"]

\* _build_create_table_sql as the server executes it: BranchIdentifier
\* NOT NULL, the source columns, and the composite key if the source has
\* a key.
CreatedSchema(source) ==
    Schema((BRANCH_ID_COL :> SqlColumn(BRANCH_ID_TYPE, "NOT NULL"))
           @@ [n \in DOMAIN source.columns |->
                 SqlColumn(get_sql_type_definition(source.columns[n]),
                           Nullability(source.columns[n]))],
           IF source.primary_key_columns # {}
           THEN {BRANCH_ID_COL} \cup source.primary_key_columns ELSE {})

\* A. Table Creation: CREATE TABLE and commit, or rollback and False.
CreateTable ==
    /\ call.at = "create"
    /\ NameFrame
    /\ \/ /\ ~call.tx.exists
          /\ call' = Returns(Committed([call EXCEPT !.tx = CreatedSchema(call.source)]), TRUE)
       \/ call' = Returns(RolledBack(call), FALSE)

\* The table with one more column.
WithColumn(schema_details, name, col) ==
    [schema_details EXCEPT !.columns = (name :> col) @@ @]

\* B.1: BranchIdentifier is added as a nullable column when the schema
\* read does not have it, and the schema is read again.
AddBranchColumn ==
    /\ call.at = "branchcol"
    /\ NameFrame
    /\ IF BRANCH_ID_COL \in DOMAIN call.target_schema.columns
       THEN call' = [call EXCEPT !.at = "pk"]
       ELSE \/ LET tx == WithColumn(call.tx, BRANCH_ID_COL, SqlColumn(BRANCH_ID_TYPE, "NULL"))
               IN  call' = [call EXCEPT !.tx = tx, !.target_schema = tx,
                                        !.schema_changed = TRUE, !.at = "pk"]
            \/ call' = Returns(RolledBack(call), FALSE)

\* B.2: a source key that is not mirrored by the composite key halts.
CheckPrimaryKey ==
    /\ call.at = "pk"
    /\ NameFrame
    /\ IF /\ call.source.primary_key_columns # {}
          /\ {BRANCH_ID_COL} \cup call.source.primary_key_columns
               # call.target_schema.primary_key_columns
       THEN call' = Returns(call, FALSE)
       ELSE call' = [call EXCEPT !.at = "columns",
                       !.todo = IF "c" \in DOMAIN call.source.columns
                                THEN <<"k1", "c">> ELSE <<"k1">>]

Reconcile_Alter(tgt_col_details, src_col_details) == src_col_details
\* A difference of type or nullability is logged only.
Reconcile(tgt_col_details, src_col_details) == tgt_col_details

\* B.3: one source column: added when the schema read lacks it (or
\* rollback and False), compared otherwise.
ReconcileColumn ==
    /\ call.at = "columns" /\ call.todo # <<>>
    /\ NameFrame
    /\ LET col_name == Head(call.todo)
           src_col_details == call.source.columns[col_name]
       IN  IF col_name \notin DOMAIN call.target_schema.columns
           THEN \/ call' = [call EXCEPT
                              !.tx = WithColumn(@, col_name,
                                        SqlColumn(get_sql_type_definition(src_col_details),
                                                  Nullability(src_col_details))),
                              !.schema_changed = TRUE,
                              !.todo = Tail(@)]
                \/ call' = Returns(RolledBack(call), FALSE)
           ELSE call' = [call EXCEPT
                           !.tx.columns[col_name] = Reconcile(@, src_col_details),
                           !.todo = Tail(@)]

\* if schema_changed: commit; return True
AlignFinish ==
    /\ call.at = "columns" /\ call.todo = <<>>
    /\ NameFrame
    /\ call' = Returns(IF call.schema_changed THEN Committed(call) ELSE call, TRUE)

\* sync_table, if not schema_aligned: the status SchemaError is written
\* and the target session committed.
RecordSchemaError ==
    /\ call.at = "returned" /\ ~call.res
    /\ NameFrame
    /\ call' = [Committed(call) EXCEPT !.at = "recorded"]

NextAlign ==
    \/ AlignBegin \/ CreateTable \/ AddBranchColumn \/ CheckPrimaryKey
    \/ ReconcileColumn \/ AlignFinish \/ RecordSchemaError
SpecAlign == InitAlign /\ [][NextAlign]_vars

\* ------------------------------------------------------- the batch loop
\* sync_table for every method, with the source unchanged, no failure
\* injected and no shutdown.
InitLoop ==
    /\ Unsynced
    /\ OrchIdle(1, 1)
    /\ method \in AllMethods
    /\ pkCols \in {1, 2}
    /\ src \in Sources(pkCols)
    /\ tgtTable = FALSE
    /\ tgtBranchCol = FALSE
    /\ tgtPk = {}

NextLoop ==
    \/ Start \/ BeginCycle \/ CheckRunning \/ Align \/ Prepare \/ LoopCheck
    \/ Fetch \/ CreateTemp \/ Stage \/ Merge \/ UpdateWatermark \/ Commit
    \/ Final \/ Close

SpecLoop == InitLoop /\ [][NextLoop]_vars
\* Every statement returns.
SpecLoopFair == SpecLoop /\ WF_vars(NextLoop)

\* ------------------------------------------------- global staging tables
\* The threads of the table pools of two branches that run at the same
\* time in the process, and the global temporary tables of the target
\* instance.  A thread is created by its pool, runs table tasks one after
\* another and ends with its pool.
Workers == {1, 2} \X (1..MAX_CONCURRENT_TABLES_PER_BRANCH)
Tables == {"t", "u"}
\* threading.get_ident(): an integer no other live thread has; the value
\* of a thread that ended may be given again.
Idents == 1..Cardinality(Workers)
LiveIdents(threads) == {threads[w].ident : w \in {x \in Workers : threads[x].st # "none"}}

NoThread == [st |-> "none", ident |-> 0, table |-> "", name |-> <<>>]

TempName_NoIdent(table_name, ident) == <<"##", table_name, "_sync_">>
\* f"##{table_name}_sync_{threading.get_ident()}": the parts of the name;
\* two names are the same text exactly when their parts are the same (the
\* identifier is the run of digits after the last "_sync_").
TempName(table_name, ident) == <<"##", table_name, "_sync_", ident>>

InitStage ==
    /\ Unsynced
    /\ mainPc = "top"
    /\ wleft = 0
    /\ seen = {}
    /\ bt = [s \in 1..1 |-> NoBranch]
    /\ tt = [s \in 1..1 |-> [t \in 1..1 |-> NoTable]]
    /\ call = [fn |-> "stage", threads |-> [w \in Workers |-> NoThread],
               temps |-> {}]
    /\ method = "autono"
    /\ pkCols = 1
    /\ src = {}
    /\ tgtTable = FALSE
    /\ tgtBranchCol = FALSE
    /\ tgtPk = {}

\* The pool of the branch starts a thread for a submitted task.
ThreadStart(w) ==
    /\ call.threads[w].st = "none"
    /\ NameFrame
    /\ \E i \in Idents \ LiveIdents(call.threads) :
          call' = [call EXCEPT !.threads[w] = [NoThread EXCEPT !.st = "idle", !.ident = i]]

\* The pool is shut down at the end of sync_branch.
ThreadExit(w) ==
    /\ call.threads[w].st = "idle"
    /\ NameFrame
    /\ call' = [call EXCEPT !.threads[w] = NoThread]

\* The thread runs the task of a table of its branch (no other thread of
\* the branch has the same one) and enters _upsert_batch_atomic with a
\* batch: the name of the staging table is made.
EnterUpsert(w) ==
    /\ call.threads[w].st = "idle"
    /\ NameFrame
    /\ \E t \in Tables :
          /\ \A x \in Workers :
                x # w /\ x[1] = w[1] /\ call.threads[x].st \notin {"none", "idle"}
                   => call.threads[x].table # t
          /\ call' = [call EXCEPT
                        !.threads[w].st = "create",
                        !.threads[w].table = t,
                        !.threads[w].name = TempName(t, call.threads[w].ident)]

\* CREATE TABLE <temp>: raises when the instance has a table of that name.
CreateStaging(w) ==
    /\ call.threads[w].st = "create"
    /\ NameFrame
    /\ IF call.threads[w].name \in call.temps
       THEN call' = [call EXCEPT !.threads[w].st = "failed"]
       ELSE call' = [call EXCEPT !.threads[w].st = "staged",
                                 !.temps = @ \cup {call.threads[w].name}]

\* finally: DROP TABLE <temp>, after the MERGE or after a failure.
DropStaging(w) ==
    /\ call.threads[w].st \in {"staged", "failed"}
    /\ NameFrame
    /\ call' = [call EXCEPT
                  !.threads[w] = [NoThread EXCEPT !.st = "idle", !.ident = call.threads[w].ident],
                  !.temps = @ \ {call.threads[w].name}]

NextStage ==
    \E w \in Workers :
       \/ ThreadStart(w) \/ ThreadExit(w) \/ EnterUpsert(w)
       \/ CreateStaging(w) \/ DropStaging(w)
SpecStage == InitStage /\ [][NextStage]_vars

\* ------------------------------------------------- the remarks written
\* The SyncRemarks values sync_table passes to update_sync_meta_status in
\* one invocation.  A text is modelled by its length.
\* str(...)[:1000]
REMARKS_SLICE == 1000
\* len(text[:k])
Slice(n, k) == Min2(n, k)

\* Lengths of the branch identifier (the thread is named
\* <branch_identifier>_sync_<n> by the pool of sync_branch), of str() of
\* an exception, and the values of total_rows_synced_this_run.
BranchLens == {1, 8, 64, 255}
ThreadNameLen(branch) == branch + Len("_sync_0")
ErrorLens == {0, Len("Shutdown signaled"), 200, 975, 1000, 3000}
Totals == {0, 7, 100}

\* f'[{thread_name}] Starting sync cycle.'
StartingRemarks(thread_name) ==
    Len("[") + thread_name + Len("] Starting sync cycle.")
\* "Schema alignment failed."
SchemaErrorRemarks == Len("Schema alignment failed.")
\* f'[{thread_name}] Sync cycle completed. {total} rows processed.'
CompletedRemarks(thread_name, n) ==
    Len("[") + thread_name + Len("] Sync cycle completed. ") + Len(Str(n))
       + Len(" rows processed.")
\* f"[{thread_name}] Sync interrupted: {str(data_sync_loop_error)[:1000]}"
InterruptedRemarks(thread_name, error) ==
    Len("[") + thread_name + Len("] Sync interrupted: ") + Slice(error, REMARKS_SLICE)
\* f"[{thread_name}] Unexpected error: {str(e)[:1000]}"
UnexpectedRemarks(thread_name, error) ==
    Len("[") + thread_name + Len("] Unexpected error: ") + Slice(error, REMARKS_SLICE)

\* Nothing is written yet.
NoWrite == [site |-> "none", status |-> "none", remarks |-> 0, error |-> 0, total |-> 0]

InitRemarks ==
    /\ Unsynced
    /\ mainPc = "top"
    /\ wleft = 0
    /\ seen = {}
    /\ bt = [s \in 1..1 |-> NoBranch]
    /\ tt = [s \in 1..1 |-> [t \in 1..1 |-> NoTable]]
    /\ \E b \in BranchLens :
          call = [fn |-> "remarks", thread_name |-> ThreadNameLen(b),
                  at |-> "begin", write |-> NoWrite]
    /\ method = "autono"
    /\ pkCols = 1
    /\ src = {}
    /\ tgtTable = FALSE
    /\ tgtBranchCol = FALSE
    /\ tgtPk = {}

\* The last write: the statement of sync_table that made it, the status
\* and the length of the remarks (and what they were made of).
Written(c, site, status, remarks, error, n) ==
    [c EXCEPT !.at = IF site = "start" THEN "running" ELSE "ended",
              !.write = [site |-> site, status |-> status, remarks |-> remarks,
                         error |-> error, total |-> n]]

\* update_sync_meta_status(..., 'InProgress', ...)
WriteInProgress ==
    /\ call.fn = "remarks" /\ call.at = "begin"
    /\ NameFrame
    /\ call' = Written(call, "start", "InProgress",
                       StartingRemarks(call.thread_name), 0, 0)

\* update_sync_meta_status(..., 'SchemaError', ...)
WriteSchemaError ==
    /\ call.fn = "remarks" /\ call.at = "running"
    /\ NameFrame
    /\ call' = Written(call, "schema", "SchemaError", SchemaErrorRemarks, 0, 0)

\* Final status update: after a loop that ended with no error, with the
\* exception the loop caught, or with InterruptedError("Shutdown signaled").
WriteFinal ==
    /\ call.fn = "remarks" /\ call.at = "running"
    /\ NameFrame
    /\ \E n \in Totals :
          \/ call' = Written(call, "final", FinalStatus(FALSE, n),
                             CompletedRemarks(call.thread_name, n), 0, n)
          \/ \E error \in ErrorLens :
                call' = Written(call, "final", FinalStatus(TRUE, n),
                                InterruptedRemarks(call.thread_name, error), error, n)

\* except Exception as e: status Failed with the text of the exception.
WriteCritical ==
    /\ call.fn = "remarks" /\ call.at = "running"
    /\ NameFrame
    /\ \E error \in ErrorLens :
          call' = Written(call, "critical", "Failed",
                          UnexpectedRemarks(call.thread_name, error), error, 0)

NextRemarks == WriteInProgress \/ WriteSchemaError \/ WriteFinal \/ WriteCritical
SpecRemarks == InitRemarks /\ [][NextRemarks]_vars

\* ------------------------------------------------- the table settings
\* SYNC_METHODS and BATCH_SIZE_MAP of common.py as dictionaries from names
\* to values, and an entry of TABLES_TO_SYNC; names are texts of letters in
\* either case, as they are written in the file.
Names == {x \in Texts(2) : x # <<>> /\ \A i \in DOMAIN x : x[i] # " "}
DEFAULT_BATCH_SIZE == 100
MethodValues == {"autono", "full", "timestamp"}
BatchSizes == {DEFAULT_BATCH_SIZE, 110}
\* The dictionaries of at most one entry.
Dicts(V) == UNION {[K -> V] : K \in {X \in SUBSET Names : Cardinality(X) <= 1}}

\* dict.get(key, default): the value of the key that equals the argument.
DictGet(d, key, default) == IF key \in DOMAIN d THEN d[key] ELSE default

\* SYNC_METHODS.get(table_to_sync.lower(), 'autono')
SyncMethodFor(sync_methods, table_name) ==
    DictGet(sync_methods, Lower(table_name), "autono")
\* BATCH_SIZE_MAP.get(table_name.lower(), DEFAULT_BATCH_SIZE)
BatchSizeFor(batch_size_map, table_name) ==
    DictGet(batch_size_map, Lower(table_name), DEFAULT_BATCH_SIZE)

InitConfig ==
    /\ Unsynced
    /\ mainPc = "top"
    /\ wleft = 0
    /\ seen = {}
    /\ bt = [s \in 1..1 |-> NoBranch]
    /\ tt = [s \in 1..1 |-> [t \in 1..1 |-> NoTable]]
    /\ \E m \in Dicts(MethodValues), b \in Dicts(BatchSizes), t \in Names :
          call = [fn |-> "config", sync_methods |-> m, batch_size_map |-> b,
                  table |-> t, at |-> "start", method |-> "", batch_size |-> 0]
    /\ method = "autono"
    /\ pkCols = 1
    /\ src = {}
    /\ tgtTable = FALSE
    /\ tgtBranchCol = FALSE
    /\ tgtPk = {}

\* sync_table: sync_method_for_table
DetermineMethod ==
    /\ call.fn = "config" /\ call.at = "start"
    /\ NameFrame
    /\ call' = [call EXCEPT !.at = "method",
                            !.method = SyncMethodFor(call.sync_methods, call.table)]

\* build_query: batch_size of SELECT TOP
DetermineBatchSize ==
    /\ call.fn = "config" /\ call.at = "method"
    /\ NameFrame
    /\ call' = [call EXCEPT !.at = "query",
                            !.batch_size = BatchSizeFor(call.batch_size_map, call.table)]

NextConfig == DetermineMethod \/ DetermineBatchSize
SpecConfig == InitConfig /\ [][NextConfig]_vars

\* ------------------------------------------------- the SyncMeta functions
\* sync.SyncMeta as a table: one row or none per (BranchName, TableName),
\* each row with its SyncRemarks.  The functions of db_utils.py are called
\* in any order with any arguments; GETDATE() advances with every call.
Pairs == {BranchIdentifier, OtherBranch} \X {"t", "u"}
\* SyncRemarks of a row the INSERT of get_sync_meta_entry made.
NoRemarks == "NULL"
Remarks == {"r1", "r2"}
Statuses == {"InProgress", "Complete", "Pending", "Failed", "SchemaError"}
LastValues == {Str(k) : k \in Keys}

\* WHERE BranchName = ? AND TableName = ?
Where(branch_name, table_name) == <<branch_name, table_name>>

get_sync_meta_entry(T, branch_name, table_name, create_if_not_exists) ==
    [p \in Pairs |->
        IF p = Where(branch_name, table_name) /\ create_if_not_exists
        THEN GetOrCreate(T[p]) @@ [SyncRemarks |-> NoRemarks]
        ELSE T[p]]

update_last_synced_value(T, branch_name, table_name, last_value) ==
    [p \in Pairs |->
        IF p = Where(branch_name, table_name)
        THEN UpdateLastValue(T[p], last_value)
        ELSE T[p]]

update_sync_meta_status(T, branch_name, table_name, status, remarks) ==
    [p \in Pairs |->
        IF p = Where(branch_name, table_name) /\ T[p].SyncStatus # "none"
        THEN [UpdateStatus(T[p], status) EXCEPT !.SyncRemarks = remarks]
        ELSE T[p]]

\* Some pairs have the row get_sync_meta_entry inserts, the others none;
\* the clock of the server is past its origin (0 is NULL).
InitMeta ==
    /\ tgt = EmptyBag
    /\ meta = NoRow
    /\ txTgt = EmptyBag
    /\ txMeta = NoRow
    /\ temp = NoTemp
    /\ isRunning = TRUE
    /\ pc = "idle"
    /\ queryLV = <<>>
    /\ rows = {}
    /\ nextLV = <<>>
    /\ total = 0
    /\ loopErr = FALSE
    /\ now = 1
    /\ runs = 0
    /\ events = 0
    /\ h = NoHist
    /\ mainPc = "top"
    /\ wleft = 0
    /\ seen = {}
    /\ bt = [s \in 1..1 |-> NoBranch]
    /\ tt = [s \in 1..1 |-> [t \in 1..1 |-> NoTable]]
    /\ \E present \in SUBSET Pairs :
          LET T == [p \in Pairs |->
                      IF p \in present
                      THEN GetOrCreate(NoRow) @@ [SyncRemarks |-> NoRemarks]
                      ELSE NoRow]
          IN  call = [fn |-> "meta", table |-> T, pre |-> T,
                      op |-> [name |-> "none"], n |-> 0]
    /\ method = "autono"
    /\ pkCols = 1
    /\ src = {}
    /\ tgtTable = FALSE
    /\ tgtBranchCol = FALSE
    /\ tgtPk = {}

\* One call: the table before it and its arguments are kept for the
\* properties; the clock of the server moves on.
MetaCall(op, T) ==
    /\ call.fn = "meta" /\ call.n < MaxCalls
    /\ call' = [call EXCEPT !.pre = call.table, !.table = T, !.op = op,
                            !.n = @ + 1]
    /\ now' = now + 1
    /\ UNCHANGED <<method, pkCols, src, schema, tgt, meta, txTgt, txMeta, temp,
                   isRunning, pc, queryLV, rows, nextLV, total, loopErr, runs,
                   events, h>>
    /\ UNCHANGED orch

GetEntryCall ==
    \E p \in Pairs, create \in BOOLEAN :
       MetaCall([name |-> "get_entry", branch |-> p[1], table |-> p[2],
                 create |-> create, getdate |-> now],
                get_sync_meta_entry(call.table, p[1], p[2], create))

UpdateLastValueCall ==
    \E p \in Pairs, v \in LastValues :
       MetaCall([name |-> "update_last_value", branch |-> p[1], table |-> p[2],
                 value |-> v, getdate |-> now],
                update_last_synced_value(call.table, p[1], p[2], v))

UpdateStatusCall ==
    \E p \in Pairs, status \in Statuses, remarks \in Remarks :
       MetaCall([name |-> "update_status", branch |-> p[1], table |-> p[2],
                 status |-> status, remarks |-> remarks, getdate |-> now],
                update_sync_meta_status(call.table, p[1], p[2], status, remarks))

NextMeta == GetEntryCall \/ UpdateLastValueCall \/ UpdateStatusCall
SpecMeta == InitMeta /\ [][NextMeta]_vars

\* ------------------------------------------------------------ properties
TgtRow(r) == [b |-> BranchIdentifier, k1 |-> r.k1, k2 |-> r.k2]

\* What another session can read of a batch: all of it, or none of it.
AllVisible(B) ==
    /\ \A r \in B.rows : tgt[TgtRow(r)] > 0
    /\ meta.LastValue = Str(SetMax({Wm(r) : r \in B.rows}))

NoneVisible(B) == tgt = B.preTgt /\ meta.LastValue = B.preLV

\* C1 -- No partial batch: at every step of a batch (staging, MERGE,
\* watermark update, before the commit, after a failure or a kill) the
\* committed state holds none of the batch's changes with LastValue as
\* before the batch, and once the batch is committed it holds all rows of
\* the batch with LastValue the batch's maximum watermark.
C1_NoPartialBatch ==
    /\ h.batch.st \in {"open", "aborted"} => NoneVisible(h.batch)
    /\ h.batch.st = "committed" => AllVisible(h.batch)

\* The transaction holds the merged batch and the new watermark, and none
\* of it is committed yet.
C1_Witness ==
    /\ pc = "commit" /\ h.batch.st = "open"
    /\ Cardinality(h.batch.rows) = BatchSize
    /\ txTgt # tgt /\ txMeta.LastValue # meta.LastValue

\* C2 -- Monotone watermark: every committed SyncMeta.LastValue is greater
\* than or equal to the one committed before it, over every sequence of
\* invocations (completed, failed, cancelled, killed) and every method.
C2_MonotoneWatermark ==
    [][meta.SyncStatus # "none" /\ meta'.SyncStatus # "none"
        => SqlInt(meta'.LastValue) >= SqlInt(meta.LastValue)]_vars

\* The invocation ran to its final status update with no injected fault
\* and has not yet left the function.
Ended == pc = "close" /\ h.kind = "final"

\* C3 -- At-least-once delivery: for an incremental method (autono or a
\* named watermark column) and a source that does not change during the
\* run, when the invocation ends with status Complete every source row
\* whose watermark is greater than the LastValue stored at the start is
\* present in the consolidated table under the branch's identifier, also
\* when several source rows share one watermark value.
C3_AtLeastOnce ==
    (Ended /\ method \in {"autono", "named"} /\ meta.SyncStatus = "Complete")
        => \A r \in src : Wm(r) > SqlInt(h.startLV) => tgt[TgtRow(r)] > 0

\* C4 -- Branch-partitioned identity: in every reachable state of the
\* consolidated table, committed or inside the open transaction, no two
\* rows have the same (BranchIdentifier, source primary-key columns), for
\* single-column and multi-column source keys.
C4_BranchPartitionedIdentity == KeyUnique(tgt) /\ KeyUnique(txTgt)

\* Two committed rows of the branch that differ only in the second column
\* of a two-column key, the second one brought by a later MERGE.
C4_Witness ==
    /\ pkCols = 2 /\ h.commits = 2
    /\ \E x, y \in Present(tgt) : x # y /\ x.k1 = y.k1

\* C5 -- Upsert idempotence: applying the batch upsert a second time with
\* the same batch succeeds and leaves the consolidated table as the first
\* application left it (and the same LastValue), for single-column and
\* multi-column source keys.
C5_UpsertIdempotence ==
    pc = "updlv" =>
        /\ ~MergeRaises(txTgt, temp.rows)
        /\ MergeRows(txTgt, temp.rows) = txTgt
        /\ UpdateLastValue(UpdateLastValue(txMeta, nextLV), nextLV).LastValue
             = UpdateLastValue(txMeta, nextLV).LastValue

\* C6 -- Idempotent replay: running sync_table again when the source has
\* no rows beyond the stored watermark (here: the previous invocation ended
\* Complete and the source has not changed since it started) changes no row
\* of the consolidated table and leaves LastValue as it was, while
\* LastSynced is advanced and the status ends Complete.
C6_IdempotentReplay ==
    (/\ Ended /\ h.replay /\ ~h.injected /\ ~h.stopped
     /\ \A r \in src : Wm(r) <= SqlInt(h.startLV))
        => /\ tgt = h.startTgt
           /\ meta.LastValue = h.startLV
           /\ meta.LastSynced > h.startLS
           /\ meta.SyncStatus = "Complete"

\* C7 -- Full-sync determinism: for method full, after a completed cycle
\* the consolidated table's rows of the branch are exactly the rows of the
\* source at extraction time, whatever the size of the source and also
\* when rows were removed from the source since the previous cycle.
C7_FullSyncDeterminism ==
    (Ended /\ method = "full" /\ meta.SyncStatus = "Complete")
        => \A t \in TgtRows :
              tgt[t] = IF \E r \in src : TgtRow(r) = t THEN 1 ELSE 0

\* C8 -- When a step of the batch loop raises, the uncommitted batch is
\* rolled back, what earlier batches of the invocation committed (rows and
\* watermark) stays committed, and the final status recorded is Failed if
\* the invocation committed no batch and Pending otherwise.
C8_LoopErrorOutcome ==
    /\ (pc = "final" /\ loopErr)
          => /\ txTgt = tgt /\ txMeta = meta
             /\ tgt = h.cTgt /\ meta.LastValue = h.cLV
    /\ (Ended /\ h.raised)
          => /\ tgt = h.cTgt /\ meta.LastValue = h.cLV
             /\ meta.SyncStatus = IF h.commits = 0 THEN "Failed" ELSE "Pending"

\* The second batch of an invocation raised after the first was committed:
\* the first batch's rows are kept and the status is Pending.
C8_Witness ==
    /\ Ended /\ h.raised /\ h.commits = 1 /\ h.batch.st = "aborted"
    /\ tgt # h.startTgt /\ meta.SyncStatus = "Pending"

\* The first extraction of the invocation has just been answered.
FirstFetched ==
    /\ h.commits = 0
    /\ \/ pc = "create"
       \/ pc = "final" /\ h.exit = "drained"

\* C9 -- After a batch fails and is rolled back the watermark has not
\* advanced, and the first extraction of the next invocation uses the
\* last_value the failed batch was extracted with and, the source being
\* unchanged, extracts the rows of the failed batch again.
C9_RetrySameBatch ==
    /\ h.batch.st = "aborted" => meta.LastValue = h.batch.preLV
    /\ (FirstFetched /\ h.retry)
          => queryLV = h.retryLV /\ rows = h.retryRows

\* The status of the record before the invocation (a record the invocation
\* creates starts as Pending).
PriorStatus == IF h.startStatus = "none" THEN "Pending" ELSE h.startStatus

\* C10 -- When the batch loop stops because the shutdown flag is false, no
\* exception raised, the final status recorded is Pending if the invocation
\* committed at least one batch and otherwise the status the record had
\* before the invocation.
C10_ShutdownStatus ==
    (Ended /\ h.exit = "shutdown" /\ ~h.raised)
        => meta.SyncStatus = IF h.commits > 0 THEN "Pending" ELSE PriorStatus

\* C11 -- InProgress is transient: whenever a sync_table invocation has
\* returned (after draining, after a schema failure, after an exception, or
\* after seeing the shutdown flag at one of its checks) with the target
\* database reachable all along, the SyncMeta status of the pair is not
\* InProgress.
C11_InProgressTransient ==
    (pc = "close" /\ h.kind # "connfail") => meta.SyncStatus # "InProgress"

\* The invocation reached the schema step and returned, without an
\* injected fault.
Aligned == pc = "close" /\ h.kind \notin {"connfail", "cancelled"} /\ ~h.injected

\* C12 -- If the consolidated table exists and its primary key is not
\* exactly BranchIdentifier plus the source primary-key columns, the
\* invocation records SchemaError, merges no batch, leaves LastValue
\* unchanged and leaves the table's primary key as it was.
C12_PkMismatchHalts ==
    (Aligned /\ h.startTable /\ h.startPk # ExpectedPk)
        => /\ meta.SyncStatus = "SchemaError"
           /\ h.commits = 0 /\ tgt = h.startTgt
           /\ meta.LastValue = h.startLV
           /\ tgtPk = h.startPk

\* C13: every consolidated table for which schema reconciliation has
\* returned true (created by the engine or found existing) has a primary
\* key made of exactly BranchIdentifier and all the source's primary-key
\* columns, a source without a primary key included.
C13_CompositeKey == pc = "prep" => tgtPk = ExpectedPk

\* A batch of this invocation is being written: its staging table is
\* being filled, its MERGE has run, or the transaction holds merged rows.
BatchInHand ==
    pc \in {"create", "stage", "merge", "updlv", "commit"} \/ txTgt # tgt

\* C14: while a batch is being merged (from the creation of its staging
\* table to its commit) the SyncMeta row of the table exists committed with
\* status InProgress, and schema reconciliation has returned true (the
\* consolidated table exists with its BranchIdentifier column).
C14_MetaBeforeData ==
    BatchInHand => /\ meta.SyncStatus = "InProgress"
                   /\ tgtTable /\ tgtBranchCol

\* The first batch of a table never synchronised before has been merged.
C14_Witness ==
    /\ pc = "updlv" /\ txTgt # tgt
    /\ h.startStatus = "none" /\ ~h.startTable /\ h.commits = 0

\* The invocation found the source table empty and ended without a
\* shutdown or an error.
EmptyRun ==
    /\ Ended /\ src = {}
    /\ h.exit = "drained" /\ ~h.stopped /\ ~h.raised /\ ~h.injected

\* C20: for an empty source table, without shutdown or error, sync_table
\* adds no row to the consolidated table, leaves LastValue unchanged and
\* ends with status Complete.
C20_EmptySource ==
    EmptyRun => /\ tgt = h.startTgt
                /\ meta.LastValue = h.startLV
                /\ meta.SyncStatus = "Complete"

\* An empty source is synchronised into a table that holds rows of an
\* earlier invocation.
C20_Witness == EmptyRun /\ h.startTgt # EmptyBag /\ h.startLV # Str(0)

\* C18: once is_running is false, a worker inside its batch loop commits
\* at most one further batch (the one whose top-of-loop check still saw the
\* flag true) and leaves the loop; after a top-of-loop check that saw the
\* flag false nothing is extracted, staged or merged.
C18_CancelBetweenBatches ==
    /\ h.late <= 1
    /\ h.exit = "shutdown" =>
          /\ pc \in {"final", "close"}
          /\ h.batch.st # "open" /\ txTgt = tgt /\ ~temp.exists

\* The signal arrived while a batch was in hand; the batch was committed
\* and the worker left although the source holds more rows.
C18_Witness ==
    /\ Ended /\ h.late = 1 /\ h.exit = "shutdown"
    /\ Candidates(src, queryLV) # {}

\* Table tasks of source s that ended without Complete; a branch that
\* could not resolve its name counts as one task lost.
Lost(s) ==
    IF bt[s].out = "skipped" THEN 1
    ELSE IF bt[s].out = "ok" THEN Cardinality(TABLES_TO_SYNC) - bt[s].complete
    ELSE IF bt[s].st = "tables"
    THEN Cardinality({t \in TABLES_TO_SYNC : tt[s][t].st = "done"})
            - bt[s].complete
    ELSE 0

\* The pool of main_sync_cycle has been left by every branch task.
CycleEnd ==
    mainPc = "join" /\ \A s \in SourceConfigs : bt[s].st \in {"done", "cancelled"}

\* As long as no shutdown is signalled: no more tasks end without Complete
\* than failures have happened, and at the end of the cycle every branch
\* task has run (none was cancelled or left out).
Isolated ==
    isRunning =>
        /\ SumOver(SourceConfigs, [s \in SourceConfigs |-> Lost(s)]) <= events
        /\ CycleEnd => \A s \in SourceConfigs :
                          bt[s].st = "done" /\ bt[s].out \in {"ok", "skipped"}

\* C15: a failure in one table task (connection, schema, batch loop) or in
\* one branch task keeps no other table task of the branch and no other
\* branch task of the cycle from running to its own final status: every
\* cycle that is not shut down reaches its end, and every task but the
\* failing ones ends Complete.
C15_FailureIsolation ==
    /\ []Isolated
    /\ (mainPc = "collect") ~> (mainPc = "after" \/ ~isRunning)

\* A cycle ends in which one table task failed and another table task of
\* the same branch ended Complete.
C15_Witness ==
    /\ CycleEnd /\ isRunning /\ events > 0
    /\ \E s \in SourceConfigs :
         bt[s].out = "ok" /\ 0 < bt[s].complete
                          /\ bt[s].complete < Cardinality(TABLES_TO_SYNC)

\* C16: no two table tasks run at the same time for the same
\* (BranchIdentifier, table).
C16_SingleWorker ==
    \A s1, s2 \in SourceConfigs, t \in TABLES_TO_SYNC :
        (s1 # s2 /\ TableRunning(s1, t) /\ TableRunning(s2, t))
            => bt[s1].name # bt[s2].name

AllTablesRunning ==
    {c \in SourceConfigs \X TABLES_TO_SYNC : TableRunning(c[1], c[2])}

\* C17: at most MAX_DB_SYNC_WORKERS branch tasks run at a time, at most
\* MAX_CONCURRENT_TABLES_PER_BRANCH table tasks of any one branch task, and
\* at most their product table tasks in all.
C17_BoundedParallelism ==
    /\ Cardinality(BranchesRunning) <= MAX_DB_SYNC_WORKERS
    /\ \A s \in SourceConfigs :
         Cardinality(TablesRunning(s)) <= MAX_CONCURRENT_TABLES_PER_BRANCH
    /\ Cardinality(AllTablesRunning)
         <= MAX_DB_SYNC_WORKERS * MAX_CONCURRENT_TABLES_PER_BRANCH

\* Both pools are full: the product is reached.
C17_Witness ==
    Cardinality(AllTablesRunning)
        = MAX_DB_SYNC_WORKERS * MAX_CONCURRENT_TABLES_PER_BRANCH

\* The outer pool is full and a branch task waits for a thread.
C17_OuterFull ==
    /\ Cardinality(BranchesRunning) = MAX_DB_SYNC_WORKERS
    /\ \E s \in SourceConfigs : bt[s].st = "queued"

\* The inner pool of a branch is full and a table task waits for a thread.
C17_InnerFull ==
    \E s \in SourceConfigs :
        /\ Cardinality(TablesRunning(s)) = MAX_CONCURRENT_TABLES_PER_BRANCH
        /\ \E t \in TABLES_TO_SYNC : tt[s][t].st = "queued"

\* Nothing of the process is left running.
ProcessEnded ==
    /\ mainPc = "exited"
    /\ \A s \in SourceConfigs :
         ~BranchRunning(s) /\ bt[s].st # "queued" /\ TablesRunning(s) = {}

\* C19: after the first shutdown signal, with threads scheduled, database
\* calls returning and sleeps ending, all branch and table workers finish,
\* the outer loop exits and the process ends, wherever the main thread was
\* when the signal arrived.
C19_GracefulTermination == ~isRunning ~> ProcessEnded

\* The signal arrived during a cycle: the main thread has cancelled a
\* branch task that had not started and waits for a running one.
C19_Witness ==
    /\ ~isRunning /\ mainPc = "join"
    /\ \E s \in SourceConfigs : bt[s].st = "cancelled"
    /\ \E s \in SourceConfigs : BranchRunning(s)

\* The signal arrived during the wait between two cycles.
C19_InWait == ~isRunning /\ mainPc = "ssleep"

\* The signal arrived during the wait outside the allowed window.
C19_InWindowWait == ~isRunning /\ mainPc = "wsleep"

\* Seconds since midnight of a time of day.
Seconds(t) == t[1] * 3600 + t[2] * 60 + t[3]
Parsed(text) == Seconds(<<text[1], text[2], 0>>)
Parses(text) == text[1] < 24 /\ text[2] < 60
Checked == call.fn = "window" /\ mainPc \in {"submit", "wcheck"}

\* C21: the window check returns true when start = end, start <= now < end
\* when start < end, and now >= start or now < end when start > end (the
\* window 23:30-06:00 includes 00:00 and excludes 06:00); a cycle is
\* started only after a check that returned true.
C21_WindowCheck ==
    /\ Checked /\ Parses(call.start) /\ Parses(call.end) =>
         LET start == Parsed(call.start)
             end == Parsed(call.end)
             n == Seconds(call.now_time)
         IN  call.res <=>
               \/ start = end
               \/ start < end /\ start <= n /\ n < end
               \/ start > end /\ (n >= start \/ n < end)
    /\ Checked /\ call.start = <<23, 30>> /\ call.end = <<6, 0>> =>
         /\ call.now_time = <<0, 0, 0>> => call.res
         /\ call.now_time = <<6, 0, 0>> => ~call.res
    /\ call.fn = "window" /\ mainPc \in {"submit", "collect"} => call.res
\* A cycle starts just after midnight in a window that wraps midnight.
C21_Witness ==
    /\ call.fn = "window" /\ mainPc = "collect"
    /\ call.start = <<23, 30>> /\ call.end = <<6, 0>>
    /\ call.now_time = <<0, 0, 0>>
\* 06:00:00 is outside the window 23:30-06:00: the loop waits.
C21_Excluded ==
    /\ call.fn = "window" /\ mainPc = "wcheck"
    /\ call.start = <<23, 30>> /\ call.end = <<6, 0>>
    /\ call.now_time = <<6, 0, 0>>

\* The file that main_sync_cycle read last is missing, or names no target,
\* or names no source.
AbortCase ==
    /\ call.fn = "window"
    /\ \/ call.cfg.st = "missing"
       \/ /\ call.cfg.st = "read"
          /\ \/ \A i \in DOMAIN call.cfg.lines : call.cfg.lines[i] # "yes"
             \/ \A i \in DOMAIN call.cfg.lines : call.cfg.lines[i] # "no"
NothingSubmitted ==
    \A s \in SourceConfigs :
       /\ bt[s].st = "none"
       /\ \A t \in TABLES_TO_SYNC : tt[s][t].st = "none"
LoopAlive == mainPc # "crashed" /\ (mainPc = "exited" => ~isRunning)

\* C22: when the connection file is missing, or names no target, or names
\* no source, the cycle is aborted with no branch task submitted and no
\* database touched, and the outer loop goes on to a later iteration.
C22_ConfigAbort ==
    /\ [](AbortCase => NothingSubmitted /\ LoopAlive)
    /\ (AbortCase /\ mainPc = "after") ~> (mainPc = "top" \/ ~isRunning)
\* After an aborted cycle the loop is at its top again.
C22_Witness == AbortCase /\ mainPc = "top" /\ isRunning
C22_Missing == C22_Witness /\ call.cfg.st = "missing"
C22_NoTarget == C22_Witness /\ call.cfg.lines = <<"no", "malformed">>
C22_NoSource == C22_Witness /\ call.cfg.lines = <<"yes">>

\* C26: no exception raised inside a table task, a branch task or a cycle
\* propagates out of the outer loop; the loop ends only because
\* is_running is false.
C26_NoPropagation ==
    /\ mainPc # "crashed"
    /\ mainPc = "exited" => ~isRunning
\* The file could not be read, the cycle raised, and the loop is at its
\* top again.
C26_Witness ==
    /\ call.fn = "window" /\ call.cfg.st = "unreadable"
    /\ mainPc = "top" /\ isRunning
\* A branch task ended with an exception that main_sync_cycle has logged.
C26_BranchRaised ==
    /\ call.fn = "window" /\ mainPc \in {"collect", "join"}
    /\ \E s \in seen : bt[s].out = "raised"

\* C23: when a connection of a table task cannot be opened, the SyncMeta
\* status of its (branch, table) pair is recorded as Failed or Pending.
C23_ConnectionFailureRecorded ==
    pc = "close" /\ h.kind = "connfail" => meta.SyncStatus \in {"Failed", "Pending"}

\* The positions of the characters of a text that are no blanks.
Inked(text) == {i \in DOMAIN text : text[i] # " "}
Min(S) == CHOOSE x \in S : \A y \in S : x <= y
Max(S) == CHOOSE x \in S : \A y \in S : x >= y
\* text without its leading and trailing blanks, in lower case.
TrimmedLower(text) ==
    IF Inked(text) = {} THEN <<>>
    ELSE [i \in 1..(Max(Inked(text)) - Min(Inked(text)) + 1) |->
            LET c == text[Min(Inked(text)) + i - 1]
            IN  IF c = "A" THEN "a" ELSE c]
\* BOTMESS1 was read and is not blank.
LogoNamed ==
    /\ ~call.error
    /\ \E r \in call.row : ~r.null /\ Inked(r.text) # {}

\* C25: the branch identifier is the trimmed, lower-cased BOTMESS1 of Logo
\* when it exists and is not empty after trimming; otherwise (no row,
\* NULL, blank, query error) the lower-cased database name.
C25_BranchName ==
    call.fn = "name" /\ call.at = "returned" =>
       IF LogoNamed
       THEN \A r \in call.row : call.res = TrimmedLower(r.text)
       ELSE call.res = TrimmedLower(call.database)
\* A value with blanks around an upper-case letter becomes the letter in
\* lower case.
C25_Witness ==
    /\ call.fn = "name" /\ call.at = "returned"
    /\ call.row = {Value(<<" ", "A", " ">>)}
    /\ call.res = <<"a">>
\* A blank value: the database name in lower case.
C25_Fallback ==
    /\ call.fn = "name" /\ call.at = "returned"
    /\ call.row = {Value(<<" ", " ">>)}
    /\ call.database = <<"A", "a">> /\ call.res = <<"a", "a">>

\* The rows of a table that belong to other branches.
OtherRows(T) == [r \in {x \in TgtRows : x.b # BranchIdentifier} |-> T[r]]

\* C29: the batch upsert of a branch inserts, updates and deletes no row
\* of another branch, however the workers of the branches interleave; a
\* key that two branches share yields one row for each.
C29_BranchIsolation ==
    [][\/ OtherBranchCommits
       \/ /\ OtherRows(tgt') = OtherRows(tgt)
          /\ OtherRows(txTgt') = OtherRows(txTgt)
          /\ pc = "merge" /\ pc' = "updlv" =>
                \A s \in temp.rows : txTgt'[TgtRow(s)] = 1]_vars
\* Both branches have committed a row with the same key and different
\* values.
C29_Witness ==
    \E k \in Keys :
       /\ tgt[[b |-> BranchIdentifier, k1 |-> k, k2 |-> 1]] = 1
       /\ tgt[[b |-> OtherBranch, k1 |-> k, k2 |-> 2]] = 1
\* The other branch commits while this worker's batch is merged and not
\* yet committed.
C29_Interleaved ==
    /\ pc = "updlv"
    /\ \E r \in Present(tgt) : r.b = OtherBranch
    /\ \E r \in Present(txTgt) : r.b = BranchIdentifier /\ tgt[r] = 0

Added == (DOMAIN call.target.columns \ DOMAIN call.start.columns) \ {BRANCH_ID_COL}

\* C24: whenever the reconciliation returns true the target table exists
\* and has BranchIdentifier and every source column, and each column added
\* has the source column's rendered type and nullability.
C24_Reconciled ==
    call.fn = "align" /\ call.at = "returned" /\ call.res =>
       /\ call.target.exists
       /\ BRANCH_ID_COL \in DOMAIN call.target.columns
       /\ DOMAIN call.source.columns \subseteq DOMAIN call.target.columns
       /\ \A n \in Added :
             /\ get_sql_type_definition(call.target.columns[n])
                  = get_sql_type_definition(call.source.columns[n])
             /\ call.target.columns[n].is_nullable = call.source.columns[n].is_nullable
\* A NOT NULL NVARCHAR(MAX) column was added to an existing table.
C24_Witness ==
    /\ call.fn = "align" /\ call.at = "returned" /\ call.res
    /\ call.start.exists /\ "c" \in Added
    /\ call.source.columns["c"] = Column("nvarchar", "-1", FALSE)
\* The table was created.
C24_Created ==
    /\ call.fn = "align" /\ call.at = "returned" /\ call.res
    /\ ~call.start.exists /\ "c" \in Added

\* What the table was at the start of the call is still there, unchanged.
Kept(schema_details) ==
    /\ schema_details.exists
    /\ \A n \in DOMAIN call.start.columns :
          /\ n \in DOMAIN schema_details.columns
          /\ schema_details.columns[n] = call.start.columns[n]
    /\ schema_details.primary_key_columns = call.start.primary_key_columns
    /\ DOMAIN schema_details.columns \subseteq
         DOMAIN call.start.columns \cup {BRANCH_ID_COL} \cup DOMAIN call.source.columns

C28_FailedCallLeavesSchema ==
    call.fn = "align" /\ call.at = "recorded" /\ call.start.exists =>
       call.target = call.start

\* C30: with the source unchanged, no error and is_running true, the batch
\* loop ends after finitely many batches, for every sync method.
C30_LoopEnds == (pc = "loop") ~> (pc = "final")
\* The same for every method but timestamp on a date watermark.
C30_PagedLoopEnds == (pc = "loop" /\ method # "timestamp") ~> (pc = "final")
\* A run never commits more batches than the source has rows.
C30_BatchesBounded == h.commits <= Cardinality(src)

\* A batch was extracted and is being upserted.
BatchExtracted == pc \in {"create", "stage", "merge", "updlv", "commit"}

\* C31: within one invocation with a non-full method, every row extracted
\* for a batch has a watermark strictly greater than the maximum watermark
\* of the batch committed before it (for the first batch: than the stored
\* LastValue), so that no row is extracted twice in the invocation.
C31_StrictlyIncreasing ==
    (BatchExtracted /\ method # "full") =>
        \A r \in rows : Wm(r) > SqlInt(h.cLV)
\* The same for every method that pages by the watermark.
C31_PagedStrictlyIncreasing ==
    (BatchExtracted /\ method \notin {"full", "timestamp"}) =>
        \A r \in rows : Wm(r) > SqlInt(h.cLV)
\* A second batch is in hand, all of it beyond the first.
C31_SecondBatch ==
    /\ BatchExtracted /\ method \notin {"full", "timestamp"}
    /\ h.commits = 1 /\ rows # {}

\* C32: status Complete is recorded only by the final status update of an
\* invocation in which the schema reconciliation returned true, nothing
\* raised, the batch loop ended because an extraction returned no rows (or,
\* for method full, after its single batch), and is_running was still true
\* at the final check.
C32_CompleteOnlyAtEnd ==
    [][(meta' # meta /\ meta'.SyncStatus = "Complete") =>
          /\ pc = "final" /\ pc' = "close"
          /\ h.aligned /\ ~h.raised /\ ~loopErr
          /\ \/ h.exit = "drained" /\ rows = {}
             \/ h.exit = "fullbreak" /\ method = "full" /\ h.commits = 1
          /\ isRunning]_vars
\* Complete is recorded after two batches and an empty extraction.
C32_Witness ==
    /\ pc = "close" /\ h.kind = "final" /\ meta.SyncStatus = "Complete"
    /\ h.exit = "drained" /\ h.commits = 2
\* Complete is recorded after the single batch of method full.
C32_FullBreak ==
    /\ pc = "close" /\ h.kind = "final" /\ meta.SyncStatus = "Complete"
    /\ h.exit = "fullbreak"

\* The (branch, table) the last call named, its row before and after.
Called == Where(call.op.branch, call.op.table)
RowBefore == call.pre[Called]
RowAfter == call.table[Called]
OthersUnchanged == \A q \in Pairs \ {Called} : call.table[q] = call.pre[q]

\* C33: update_status writes LastCompletionTime only when the new status
\* is Complete; for every other status it leaves LastCompletionTime and
\* LastValue unchanged and writes only status, remarks and LastSynced; when
\* no row exists for (branch, table) it inserts nothing.
C33_UpdateStatusFrame ==
    (call.fn = "meta" /\ call.op.name = "update_status") =>
        IF RowBefore.SyncStatus = "none"
        THEN call.table = call.pre
        ELSE /\ RowAfter.SyncStatus = call.op.status
             /\ RowAfter.SyncRemarks = call.op.remarks
             /\ RowAfter.LastSynced = call.op.getdate
             /\ RowAfter.LastValue = RowBefore.LastValue
             /\ RowAfter.LastCompletionTime =
                  IF call.op.status = "Complete" THEN call.op.getdate
                  ELSE RowBefore.LastCompletionTime
             /\ DOMAIN RowAfter = DOMAIN RowBefore
             /\ OthersUnchanged
\* A status other than Complete is written over a row that was Complete:
\* its completion time stays.
C33_Witness ==
    /\ call.fn = "meta" /\ call.op.name = "update_status"
    /\ call.op.status = "Failed" /\ RowBefore.SyncStatus = "Complete"
    /\ RowAfter.LastCompletionTime # 0
    /\ RowAfter.LastSynced # RowAfter.LastCompletionTime
\* Complete is written: the completion time is the time of the call.
C33_Completed ==
    /\ call.fn = "meta" /\ call.op.name = "update_status"
    /\ call.op.status = "Complete" /\ RowBefore.SyncStatus \notin {"none", "Complete"}
    /\ RowAfter.LastCompletionTime = call.op.getdate
\* The status of a pair without a row is updated.
C33_NoRow ==
    /\ call.fn = "meta" /\ call.op.name = "update_status"
    /\ RowBefore.SyncStatus = "none"
    /\ \E q \in Pairs : call.pre[q].SyncStatus # "none"

\* C34: update_last_value changes only LastValue and LastSynced of the
\* (branch, table) row and leaves its status, remarks and
\* LastCompletionTime and every other row unchanged; when no row exists
\* for (branch, table) it inserts nothing and SyncMeta is unchanged.
C34_UpdateLastValueFrame ==
    (call.fn = "meta" /\ call.op.name = "update_last_value") =>
        IF RowBefore.SyncStatus = "none"
        THEN call.table = call.pre
        ELSE /\ RowAfter = [RowBefore EXCEPT !.LastValue = call.op.value,
                                             !.LastSynced = call.op.getdate]
             /\ OthersUnchanged
\* The watermark of a Complete row is moved: status, remarks and completion
\* time stay.
C34_Witness ==
    /\ call.fn = "meta" /\ call.op.name = "update_last_value"
    /\ RowBefore.SyncStatus = "Complete"
    /\ RowAfter.LastValue # RowBefore.LastValue
    /\ RowAfter.LastSynced # RowBefore.LastSynced
    /\ RowAfter.SyncRemarks \in Remarks
\* The watermark of a pair without a row is updated.
C34_NoRow ==
    /\ call.fn = "meta" /\ call.op.name = "update_last_value"
    /\ RowBefore.SyncStatus = "none"
    /\ \E q \in Pairs : call.pre[q].SyncStatus # "none"

\* The worker is inside _upsert_batch_atomic, past the CREATE TABLE.
InUpsert == pc \in {"stage", "merge", "updlv"}

\* C35: the staging table of a batch does not exist after the batch upsert
\* has returned or raised, on every exit path (success, failure while
\* creating, staging, merging or updating the watermark): it exists only
\* while the worker is inside the upsert.
C35_TempDropped == temp.exists => InUpsert
\* The MERGE of a staged batch raised and the loop's handler has run.
C35_Witness ==
    /\ pc = "final" /\ h.raised /\ ~h.injected /\ h.batch.st = "aborted"
    /\ h.batch.rows # {} /\ ~temp.exists
\* The upsert returned; the batch is not committed yet.
C35_Returned == pc = "commit" /\ h.batch.st = "open" /\ ~temp.exists
\* The statement that stages the batch raised.
C35_StagingFailed ==
    /\ pc = "final" /\ h.raised /\ h.injected /\ h.batch.st = "aborted"
    /\ ~temp.exists

\* The threads that are inside _upsert_batch_atomic.
Staging == {w \in Workers : call.threads[w].st \in {"create", "staged", "failed"}}

\* C36: no two workers that are staging a batch at the same time on the
\* same target instance use the same global temp-table name, in every
\* interleaving of the table workers of all branches; so no CREATE TABLE
\* finds the name taken and no worker's staging table is dropped by
\* another.
C36_UniqueTempNames ==
    call.fn = "stage" =>
       /\ \A v, w \in Staging : v # w => call.threads[v].name # call.threads[w].name
       /\ \A w \in Workers :
             /\ call.threads[w].st # "failed"
             /\ call.threads[w].st = "staged" => call.threads[w].name \in call.temps
\* Every thread of both branches has its batch staged at the same time,
\* threads of the two branches staging the same table.
C36_Witness ==
    /\ call.fn = "stage"
    /\ \E v, w \in Workers :
          /\ v[1] # w[1]
          /\ call.threads[v].st = "staged" /\ call.threads[w].st = "staged"
          /\ call.threads[v].table = call.threads[w].table
    /\ Cardinality(call.temps) = Cardinality(Workers)

\* C37: every remarks value the engine writes to SyncMeta has at most 1000
\* characters, for every error message length and every worker thread
\* name.
C37_RemarksBounded == call.fn = "remarks" => call.write.remarks <= 1000
\* The remarks that carry no exception text are within 1000 characters.
C37_PlainRemarksBounded ==
    (call.fn = "remarks" /\ call.write.status \in {"InProgress", "SchemaError", "Complete"})
        => call.write.remarks <= 1000
\* The exception text within the remarks is at most 1000 characters; the
\* prefix comes on top of it.
C37_ErrorTextBounded ==
    call.fn = "remarks" =>
        call.write.remarks <= 1000 + Len("[") + call.thread_name + Len("] Sync interrupted: ")
\* A long exception text was cut and written.
C37_LongError ==
    /\ call.fn = "remarks" /\ call.at = "ended"
    /\ call.write.error > REMARKS_SLICE

\* A table task of source s is submitted and has not finished.
TableAlive(s, t) == tt[s][t].st \in {"queued", "setup", "loop"}
\* A branch task is submitted and has neither finished nor been cancelled.
BranchAlive(s) == bt[s].st \in {"queued", "check", "tables"}
\* The main thread is inside main_sync_cycle.
InCycle == mainPc \in {"collect", "join"}

\* C38: a branch task returns only after every table task it submitted has
\* finished, and a cycle returns only after every branch task it submitted
\* has finished or been cancelled (also when the cycle stops collecting
\* results because of shutdown); so outside main_sync_cycle no worker is
\* alive and table workers of two different cycles never run at the same
\* time.
C38_CyclesDoNotOverlap ==
    /\ [][\A s \in SourceConfigs :
            bt[s].st = "tables" /\ bt'[s].st # "tables"
               => \A t \in TABLES_TO_SYNC : tt[s][t].st = "done"]_vars
    /\ [][InCycle /\ ~InCycle'
            => \A s \in SourceConfigs : bt[s].st \in {"done", "cancelled"}]_vars
    /\ [](\A s \in SourceConfigs :
            bt[s].st # "tables" => \A t \in TABLES_TO_SYNC : ~TableAlive(s, t))
    /\ [](~InCycle =>
            \A s \in SourceConfigs :
               ~BranchAlive(s) /\ \A t \in TABLES_TO_SYNC : ~TableAlive(s, t))
\* The cycle stopped collecting because of shutdown: a pending branch task
\* is cancelled and the main thread waits for a branch whose table worker
\* still runs.
C38_Witness ==
    /\ mainPc = "join" /\ ~isRunning
    /\ \E s \in SourceConfigs : bt[s].st = "cancelled"
    /\ \E s \in SourceConfigs, t \in TABLES_TO_SYNC :
          bt[s].st = "tables" /\ TableRunning(s, t)
\* The cycle has returned after a shutdown that found workers running.
C38_Returned == mainPc = "after" /\ ~isRunning

\* C39: a table task that begins running after is_running has become
\* false opens no database connection and changes neither SyncMeta nor any
\* target table: the invocation is over at once, with the committed state,
\* the schema of the target and the sessions as they were.
C39_StoppedTaskDoesNothing ==
    [][(~isRunning /\ runs' # runs) =>
          /\ pc = "idle" /\ pc' = "idle"
          /\ meta' = meta /\ tgt' = tgt
          /\ txMeta' = txMeta /\ txTgt' = txTgt
          /\ schema' = schema /\ temp' = temp]_vars
\* The task was started after the shutdown that followed a completed run:
\* the SyncMeta row and the target are those of that run.
C39_Witness ==
    /\ pc = "idle" /\ ~isRunning /\ runs = 2 /\ now = 2
    /\ meta.SyncStatus = "Complete" /\ meta.LastSynced = 1
    /\ tgt # EmptyBag
\* The orchestrator's side: a branch task or table task that finds the flag
\* false ends without submitting or opening anything, and a cancelled
\* branch task never runs.
C39_TasksStopAtFlag ==
    [][\A s \in SourceConfigs :
          /\ (bt[s].st = "check" /\ ~isRunning /\ bt'[s] # bt[s])
                => bt'[s].st = "done" /\ bt'[s].out = "stopped" /\ tt' = tt
          /\ (bt[s].st = "cancelled" /\ bt'[s] # bt[s]) => bt'[s] = NoBranch
          /\ \A t \in TABLES_TO_SYNC :
                (tt[s][t].st = "setup" /\ ~isRunning /\ tt'[s][t] # tt[s][t])
                   => tt'[s][t].st = "done" /\ bt'[s].complete = bt[s].complete]_vars
\* A table task found the flag false when it began.
C39_TaskStopped ==
    /\ ~isRunning
    /\ \E s \in SourceConfigs, t \in TABLES_TO_SYNC :
          tt[s][t].st = "done" /\ bt[s].st = "tables" /\ bt[s].complete = 0
          /\ \E u \in TABLES_TO_SYNC : tt[s][u].st = "queued"

\* The entries of a dictionary for a table, names compared without regard
\* to case.
EntriesFor(d, table_name) == {k \in DOMAIN d : Lower(k) = Lower(table_name)}
\* The value used is the configured one, or the default when there is no
\* entry.
UsesConfigured(d, table_name, used, default) ==
    IF EntriesFor(d, table_name) = {} THEN used = default
    ELSE \E k \in EntriesFor(d, table_name) : used = d[k]

\* C40: for every table, the sync method and the batch size the engine
\* uses are the ones configured for that table in SYNC_METHODS and
\* BATCH_SIZE_MAP (table names compared without regard to case); the
\* defaults autono and 100 are used only for tables that have no entry.
C40_ConfiguredSettingsUsed ==
    (call.fn = "config" /\ call.at = "query") =>
        /\ UsesConfigured(call.sync_methods, call.table, call.method, "autono")
        /\ UsesConfigured(call.batch_size_map, call.table, call.batch_size,
                          DEFAULT_BATCH_SIZE)
\* The same when the keys of both dictionaries are written in lower case.
C40_LowerCaseKeysUsed ==
    (/\ call.fn = "config" /\ call.at = "query"
     /\ \A k \in DOMAIN call.sync_methods \cup DOMAIN call.batch_size_map : Lower(k) = k) =>
        /\ UsesConfigured(call.sync_methods, call.table, call.method, "autono")
        /\ UsesConfigured(call.batch_size_map, call.table, call.batch_size,
                          DEFAULT_BATCH_SIZE)
\* A table written with capitals gets the settings of its lower-case keys.
C40_LowerCaseKeyFound ==
    /\ call.fn = "config" /\ call.at = "query"
    /\ call.table = <<"A", "a">>
    /\ call.method = "full" /\ call.batch_size = 110

====
